---- MODULE Spec2Model ----
(***************************************************************************)
(* The transaction-appending pipeline of the node (txAppender): the        *)
(* per-transaction dispatch core appendTx, its two entry points            *)
(* appendBlock and validateNextTx, and reset.                              *)
(*                                                                         *)
(* Collaborators that the pipeline only calls (script VM, storage,         *)
(* differ, feature oracle) answer through the record env, one field per    *)
(* answer, drawn afresh for every call.                                    *)
(***************************************************************************)
EXTENDS Integers, Sequences, FiniteSets, TLC

\* ------------------------------------------------------------------ bounds

\* Transaction IDs in play.
MaxTxID == 2
\* appendTx calls (block or pool) since the pipeline was last reset.
MaxOps == 2
\* Transactions in one block.
MaxBlockLen == 2
\* Smart assets one transaction can touch.
MaxAssets == 2
\* Block header timestamps are 1..MaxTimestamp.
MaxTimestamp == 3
\* Durable balance of address "A" (address "B" holds nothing).
InitBalance == 3

\* ------------------------------------------------------- program constants

\* settings.StolenAliasesWindowTimeStart / End (scaled to the timestamps).
StolenAliasesWindowTimeStart == 2
StolenAliasesWindowTimeEnd == 2
\* maxScriptsRunsInBlock (scaled).
maxScriptsRunsInBlock == 2
\* MaxScriptsComplexityInBlock before / after RideV5 (scaled).
MaxComplexityBeforeRideV5 == 2
MaxComplexityAfterRideV5 == 3
\* Fee every transaction pays, and the cost one script run adds to complexity.
Fee == 1
ScriptCost == 1

TxIDs == 1..MaxTxID
Timestamps == 1..MaxTimestamp
Addrs == {"A", "B"}

\* proto.TransactionType values the pipeline distinguishes; "Transfer" stands
\* for every kind that takes the default branch without a special case.
TxTypes == {"Payment", "CreateAlias", "Transfer", "SetAssetScript", "Exchange",
            "InvokeScript", "InvokeExpression", "EthereumMetamask"}

Features == {"SmartAccounts", "SmartAccountTrading", "Ride4DApps",
             "BlockV5", "RideV5", "RideV6"}

VARIABLES
    features,          \* activated features (a.stor.features)
    recentTxIds,       \* a.recentTxIds
    totalScriptsRuns,  \* a.totalScriptsRuns
    totalComplexity,   \* a.sc: complexity of the scripts of the committed transactions
    diffStor,          \* a.diffStor: accumulated balance diff per address
    stor,              \* a.rw durable storage: id -> "none" | "ok" | "failed"
    curFees,           \* a.blockDiffer: fees counted in the current block
    prevFees,          \* a.blockDiffer: fee distribution saved by the last block
    pc,                \* "idle" | "block" (inside appendBlock's loop)
    block,             \* appendBlock's locals: the block's timestamp and length, the loop
                       \* position, and the working diff set it started from (base)
    utxSession,        \* validateNextTx has run since the last reset
    ops,               \* appendTx calls since the last reset
    committed,         \* history: id -> "no" | "utx" | "block", how appendTx committed it
    arg,               \* the input drawn for a single call of one handler
    last,              \* the last operation and what it returned
    mine               \* DefaultMiner: Mine's position and locals, the interrupt flag,
                       \* the state mutex and the UTX pool

vars == <<features, recentTxIds, totalScriptsRuns, totalComplexity, diffStor, stor,
          curFees, prevFees, pc, block, utxSession, ops, committed, arg, last, mine>>

\* ------------------------------------------------------------ collaborators

\* a.stor.features.newestIsActivated
newestIsActivated(f) == f \in features

\* Durable balances (a.stor.balances); nothing in the pipeline writes them.
balances == [a \in Addrs |-> IF a = "A" THEN InitBalance ELSE 0]

ZeroDiff == [a \in Addrs |-> 0]

AddDiff(d1, d2) == [a \in Addrs |-> d1[a] + d2[a]]

\* blockDiffer.createTransactionDiff: the sender pays amount + fee, the other
\* address receives the amount.
createTransactionDiff(tx) ==
    [a \in Addrs |-> IF a = tx.sender THEN 0 - (tx.amount + Fee) ELSE tx.amount]

\* blockDiffer.createFailedTransactionDiff and the fee diffs of checkTxFees:
\* the sender pays the fee and nothing else moves.
createFailedTransactionDiff(tx) ==
    [a \in Addrs |-> IF a = tx.sender THEN 0 - Fee ELSE 0]

\* diffApplier.validateTxDiff: every address the diff touches keeps a
\* non-negative balance: durable balance + working diffs + this diff.
validateTxDiff(diff, ds) ==
    \A a \in Addrs : diff[a] # 0 => balances[a] + ds[a] + diff[a] >= 0

\* diffStorage.saveTxDiff
saveTxDiff(diff, ds) == AddDiff(ds, diff)

\* blockReadWriter.readTransaction: TRUE when the read returns no error.
readTransaction(id) == stor[id] # "none"

\* proto.IsProtobufTx
IsProtobufTx(tx) == tx.proto

\* scriptCaller.callAssetScript: the script's outcome "T" (passed), "F"
\* (negative result) or "E" (error); a negative result is returned as an
\* error unless failed transactions are accepted.
callAssetScript(outcome, acceptFailed) ==
    IF outcome = "F" /\ ~acceptFailed THEN "E" ELSE outcome

\* NewMaxScriptsComplexityInBlock().GetMaxScriptsComplexityInBlock
GetMaxScriptsComplexityInBlock(rideV5Activated) ==
    IF rideV5Activated THEN MaxComplexityAfterRideV5 ELSE MaxComplexityBeforeRideV5

\* Index of the first asset script that does not pass, 0 when all pass.
FirstNotPassed(outcomes) ==
    IF \E i \in 1..Len(outcomes) : outcomes[i] # "T"
    THEN CHOOSE i \in 1..Len(outcomes) :
            /\ outcomes[i] # "T"
            /\ \A j \in 1..(i - 1) : outcomes[j] = "T"
    ELSE 0

Bit(b) == IF b THEN 1 ELSE 0

\* ----------------------------------------------------------------- results

NoApp == [status |-> FALSE, totalScriptsRuns |-> 0, diff |-> ZeroDiff, cplx |-> 0]

\* newApplicationResult; cplx is the complexity the scripts of this
\* transaction added to a.sc's recent-transaction complexity.
newApplicationResult(status, runs, diff, cplx) ==
    [status |-> status, totalScriptsRuns |-> runs, diff |-> diff, cplx |-> cplx]

Failure(e) == [err |-> e, app |-> NoApp]
Success(app) == [err |-> "none", app |-> app]

\* --------------------------------------------------------------- txAppender

\* checkDuplicateTxIdsImpl without the lookup in storage.
checkDuplicateTxIdsImpl_RecentOnly(id, recentIds) ==
    IF id \in recentIds THEN "duplicate" ELSE "none"

checkDuplicateTxIdsImpl(id, recentIds) ==
    IF id \in recentIds THEN "duplicate"
    ELSE IF readTransaction(id) THEN "duplicate"
    ELSE "none"

checkDuplicateTxIds(tx, recentIds, timestamp) ==
    IF tx.type = "Payment" THEN "none"
    ELSE IF /\ tx.type = "CreateAlias"
            /\ timestamp >= StolenAliasesWindowTimeStart
            /\ timestamp <= StolenAliasesWindowTimeEnd
    THEN "none"
    ELSE LET err == checkDuplicateTxIdsImpl(tx.id, recentIds)
         IN  IF err # "none" /\ tx.type = "CreateAlias" THEN "aliasTaken" ELSE err

checkProtobufVersion(tx, blockV5Activated) ==
    IF ~IsProtobufTx(tx) THEN "none"
    ELSE IF ~blockV5Activated THEN "version"
    ELSE "none"

checkTxFees(tx, ds) ==
    IF tx.type \in {"Exchange", "InvokeScript", "InvokeExpression", "EthereumMetamask"}
    THEN IF validateTxDiff(createFailedTransactionDiff(tx), ds) THEN "none" ELSE "fee"
    ELSE "wrongType"

\* checkTransactionScripts without the SetAssetScript exception of line 256.
checkTransactionScripts_CountAll(tx, accountScripted, env, acceptFailed) ==
    LET outcomes == [i \in 1..Len(env.assets) |-> callAssetScript(env.assets[i], acceptFailed)]
    IN  IF accountScripted /\ ~env.accOk THEN [err |-> "accountScript", runs |-> 0, cplx |-> 0]
        ELSE IF ~env.checkOk THEN [err |-> "checkTx", runs |-> 0, cplx |-> 0]
        ELSE IF FirstNotPassed(outcomes) # 0 THEN [err |-> "assetScript", runs |-> 0, cplx |-> 0]
        ELSE [err  |-> "none",
              runs |-> Bit(accountScripted) + Len(outcomes),
              cplx |-> ScriptCost * (Bit(accountScripted) + Len(outcomes))]

checkTransactionScripts(tx, accountScripted, env, acceptFailed) ==
    LET outcomes == [i \in 1..Len(env.assets) |-> callAssetScript(env.assets[i], acceptFailed)]
        counted  == IF tx.type = "SetAssetScript" /\ ~newestIsActivated("Ride4DApps")
                    THEN 0 ELSE Len(outcomes)
    IN  IF accountScripted /\ ~env.accOk THEN [err |-> "accountScript", runs |-> 0, cplx |-> 0]
        ELSE IF ~env.checkOk THEN [err |-> "checkTx", runs |-> 0, cplx |-> 0]
        ELSE IF FirstNotPassed(outcomes) # 0 THEN [err |-> "assetScript", runs |-> 0, cplx |-> 0]
        ELSE [err  |-> "none",
              runs |-> Bit(accountScripted) + counted,
              cplx |-> ScriptCost * (Bit(accountScripted) + Len(outcomes))]

\* checkScriptsLimits rejecting on complexity whether or not RideV6 is activated.
checkScriptsLimits_NoWarning(scriptsRuns, complexity) ==
    IF newestIsActivated("Ride4DApps")
    THEN IF complexity > GetMaxScriptsComplexityInBlock(newestIsActivated("RideV5"))
         THEN "limits" ELSE "none"
    ELSE IF newestIsActivated("SmartAccounts") /\ scriptsRuns > maxScriptsRunsInBlock
         THEN "limits" ELSE "none"

checkScriptsLimits(scriptsRuns, complexity) ==
    IF newestIsActivated("Ride4DApps")
    THEN IF /\ complexity > GetMaxScriptsComplexityInBlock(newestIsActivated("RideV5"))
            /\ newestIsActivated("RideV6")
         THEN "limits" ELSE "none"
    ELSE IF newestIsActivated("SmartAccounts") /\ scriptsRuns > maxScriptsRunsInBlock
         THEN "limits" ELSE "none"

\* needToCheckOrdersSignatures asking for both order signatures or for none.
needToCheckOrdersSignatures_Together(tx, env) ==
    IF tx.type # "Exchange" THEN <<FALSE, FALSE>>
    ELSE <<~env.o1Scripted /\ ~env.o2Scripted, ~env.o1Scripted /\ ~env.o2Scripted>>

\* The flags of the verification task; tx.Verify/Validate answer through env.
needToCheckOrdersSignatures(tx, env) ==
    IF tx.type # "Exchange" THEN <<FALSE, FALSE>>
    ELSE <<~env.o1Scripted, ~env.o2Scripted>>

verifyTask(tx, env, accountHasVerifierScript) ==
    [checkTxSig  |-> ~accountHasVerifierScript,
     checkOrder1 |-> needToCheckOrdersSignatures(tx, env)[1],
     checkOrder2 |-> needToCheckOrdersSignatures(tx, env)[2]]

\* checkTx of the verifier: the signatures asked for must be valid.
checkTx(task, env) ==
    /\ task.checkTxSig => env.sigOk
    /\ task.checkOrder1 => env.o1SigOk
    /\ task.checkOrder2 => env.o2SigOk

\* "none" or the error; sent is the task handed to the verifier channel.
verifyWavesTxSigAndData(tx, validatingUtx, env, accountHasVerifierScript) ==
    LET task == verifyTask(tx, env, accountHasVerifierScript)
    IN  IF validatingUtx
        THEN [err |-> IF checkTx(task, env) THEN "none" ELSE "verify", sent |-> <<>>]
        ELSE [err |-> IF env.sendOk THEN "none" ELSE "verify", sent |-> <<task>>]

\* handleDefaultTransaction reporting the application as failed.
handleDefaultTransaction_Failed(tx, params, accountHasVerifierScript, env) ==
    LET sc == checkTransactionScripts(tx, accountHasVerifierScript, env, params.acceptFailed)
    IN  IF sc.err # "none" THEN Failure(sc.err)
        ELSE IF ~env.diffOk THEN Failure("diff")
        ELSE Success(newApplicationResult(FALSE, sc.runs, createTransactionDiff(tx), sc.cplx))

handleDefaultTransaction(tx, params, accountHasVerifierScript, env) ==
    LET sc == checkTransactionScripts(tx, accountHasVerifierScript, env, params.acceptFailed)
    IN  IF sc.err # "none" THEN Failure(sc.err)
        ELSE IF ~env.diffOk THEN Failure("diff")
        ELSE Success(newApplicationResult(TRUE, sc.runs, createTransactionDiff(tx), sc.cplx))

\* countExchangeScriptsRuns without the Ride4DApps exception.
countExchangeScriptsRuns_Always(scriptsRuns) == scriptsRuns

\* countExchangeScriptsRuns reporting no runs at any time.
countExchangeScriptsRuns_Never(scriptsRuns) == 0

countExchangeScriptsRuns(scriptsRuns) ==
    IF ~newestIsActivated("Ride4DApps") THEN 0 ELSE scriptsRuns

\* handleExchange turning every asset-script failure into a failed result.
handleExchange_SoftReject(tx, info, env, ds) ==
    LET acceptFailed == info.blockV5Activated /\ info.acceptFailed
        trading   == newestIsActivated("SmartAccountTrading")
        o1Run     == trading /\ env.o1Scripted
        o2Run     == trading /\ env.o2Scripted
        outcomes  == [i \in 1..Len(env.assets) |-> callAssetScript(env.assets[i], acceptFailed)]
        bad       == FirstNotPassed(outcomes)
        runs      == countExchangeScriptsRuns(
                        Bit(info.senderScripted) + Bit(o1Run) + Bit(o2Run) + Len(outcomes))
        before    == Bit(info.senderScripted) + Bit(o1Run) + Bit(o2Run)
        failedChanges     == createFailedTransactionDiff(tx)
        successfulChanges == createTransactionDiff(tx)
    IN  IF info.senderScripted /\ ~env.accOk THEN Failure("accountScript")
        ELSE IF o1Run /\ ~env.o1Ok THEN Failure("order1Script")
        ELSE IF o2Run /\ ~env.o2Ok THEN Failure("order2Script")
        ELSE IF ~env.checkOk THEN Failure("checkTx")
        ELSE IF ~env.diffOk THEN Failure("diff")
        ELSE IF bad # 0
             THEN Success(newApplicationResult(FALSE, runs, failedChanges,
                                               ScriptCost * (before + bad)))
        ELSE IF acceptFailed /\ ~validateTxDiff(successfulChanges, ds)
             THEN Success(newApplicationResult(FALSE, runs, failedChanges,
                                               ScriptCost * (before + Len(outcomes))))
        ELSE Success(newApplicationResult(TRUE, runs, successfulChanges,
                                          ScriptCost * (before + Len(outcomes))))

\* handleExchange without the balance check of the successful diff.
handleExchange_NoBalanceCheck(tx, info, env, ds) ==
    LET acceptFailed == info.blockV5Activated /\ info.acceptFailed
        trading   == newestIsActivated("SmartAccountTrading")
        o1Run     == trading /\ env.o1Scripted
        o2Run     == trading /\ env.o2Scripted
        outcomes  == [i \in 1..Len(env.assets) |-> callAssetScript(env.assets[i], acceptFailed)]
        bad       == FirstNotPassed(outcomes)
        runs      == countExchangeScriptsRuns(
                        Bit(info.senderScripted) + Bit(o1Run) + Bit(o2Run) + Len(outcomes))
        before    == Bit(info.senderScripted) + Bit(o1Run) + Bit(o2Run)
        failedChanges     == createFailedTransactionDiff(tx)
        successfulChanges == createTransactionDiff(tx)
    IN  IF info.senderScripted /\ ~env.accOk THEN Failure("accountScript")
        ELSE IF o1Run /\ ~env.o1Ok THEN Failure("order1Script")
        ELSE IF o2Run /\ ~env.o2Ok THEN Failure("order2Script")
        ELSE IF ~env.checkOk THEN Failure("checkTx")
        ELSE IF ~env.diffOk THEN Failure("diff")
        ELSE IF bad # 0 /\ outcomes[bad] = "E" /\ ~acceptFailed THEN Failure("assetScript")
        ELSE IF bad # 0
             THEN Success(newApplicationResult(FALSE, runs, failedChanges,
                                               ScriptCost * (before + bad)))
        ELSE Success(newApplicationResult(TRUE, runs, successfulChanges,
                                          ScriptCost * (before + Len(outcomes))))

\* info: [acceptFailed, blockV5Activated, senderScripted]; ds: the working diffs.
handleExchange(tx, info, env, ds) ==
    LET acceptFailed == info.blockV5Activated /\ info.acceptFailed
        trading   == newestIsActivated("SmartAccountTrading")
        o1Run     == trading /\ env.o1Scripted
        o2Run     == trading /\ env.o2Scripted
        outcomes  == [i \in 1..Len(env.assets) |-> callAssetScript(env.assets[i], acceptFailed)]
        bad       == FirstNotPassed(outcomes)
        runs      == countExchangeScriptsRuns(
                        Bit(info.senderScripted) + Bit(o1Run) + Bit(o2Run) + Len(outcomes))
        before    == Bit(info.senderScripted) + Bit(o1Run) + Bit(o2Run)
        failedChanges     == createFailedTransactionDiff(tx)
        successfulChanges == createTransactionDiff(tx)
    IN  IF info.senderScripted /\ ~env.accOk THEN Failure("accountScript")
        ELSE IF o1Run /\ ~env.o1Ok THEN Failure("order1Script")
        ELSE IF o2Run /\ ~env.o2Ok THEN Failure("order2Script")
        ELSE IF ~env.checkOk THEN Failure("checkTx")
        ELSE IF ~env.diffOk THEN Failure("diff")
        ELSE IF bad # 0 /\ outcomes[bad] = "E" /\ ~acceptFailed THEN Failure("assetScript")
        ELSE IF bad # 0
             THEN Success(newApplicationResult(FALSE, runs, failedChanges,
                                               ScriptCost * (before + bad)))
        ELSE IF acceptFailed /\ ~validateTxDiff(successfulChanges, ds)
             THEN Success(newApplicationResult(FALSE, runs, failedChanges,
                                               ScriptCost * (before + Len(outcomes))))
        ELSE Success(newApplicationResult(TRUE, runs, successfulChanges,
                                          ScriptCost * (before + Len(outcomes))))

\* invokeApplier.applyInvokeScript: the VM's verdict env.invoke is "ok",
\* "failed" (recorded as failed, only when failed transactions are accepted)
\* or "err".
applyInvokeScript(tx, info, env) ==
    LET runs == Bit(info.senderScripted)
        cplx == ScriptCost * (1 + Bit(info.senderScripted))
    IN  IF env.invoke = "ok"
        THEN Success(newApplicationResult(TRUE, runs, createTransactionDiff(tx), cplx))
        ELSE IF env.invoke = "failed" /\ info.acceptFailed
        THEN Success(newApplicationResult(FALSE, runs, createFailedTransactionDiff(tx), cplx))
        ELSE Failure("invoke")

handleInvoke(tx, info, env) ==
    IF tx.type \in {"InvokeScript", "InvokeExpression"}
    THEN applyInvokeScript(tx, info, env)
    ELSE IF tx.type = "EthereumMetamask"
    THEN IF env.ethKind = "invoke" THEN applyInvokeScript(tx, info, env)
         ELSE Failure("unexpectedEthKind")
    ELSE Failure("wrongType")

\* handleFallible checking the fee only after the handler returned a result.
handleFallible_FeesLast(tx, info, env, ds) ==
    LET r == IF tx.type \in {"InvokeScript", "InvokeExpression", "EthereumMetamask"}
             THEN handleInvoke(tx, info, env)
             ELSE IF tx.type = "Exchange" THEN handleExchange(tx, info, env, ds)
             ELSE Failure("notFallible")
    IN  IF r.err # "none" THEN r
        ELSE IF info.acceptFailed /\ checkTxFees(tx, ds) # "none"
        THEN Failure(checkTxFees(tx, ds))
        ELSE r

handleFallible(tx, info, env, ds) ==
    IF info.acceptFailed /\ checkTxFees(tx, ds) # "none" THEN Failure(checkTxFees(tx, ds))
    ELSE IF tx.type \in {"InvokeScript", "InvokeExpression", "EthereumMetamask"}
    THEN handleInvoke(tx, info, env)
    ELSE IF tx.type = "Exchange" THEN handleExchange(tx, info, env, ds)
    ELSE Failure("notFallible")

handleInvokeOrExchangeTransaction(tx, info, env, ds) == handleFallible(tx, info, env, ds)

\* The pipeline state commitTxApplication writes, and the calls it makes to
\* collaborators whose state the pipeline never reads back: performTx
\* (performed) and writeTransactionToMem (mem: "none", or the status written).
Pipeline ==
    [recentTxIds |-> recentTxIds, totalScriptsRuns |-> totalScriptsRuns,
     totalComplexity |-> totalComplexity, diffStor |-> diffStor,
     stor |-> stor, curFees |-> curFees, performed |-> FALSE, mem |-> "none"]

TxStatus(status) == IF status THEN "ok" ELSE "failed"

\* commitTxApplication taking the block branch in pool mode too.
commitTxApplication_AlwaysDurable(tx, params, app, env, st) ==
    LET s1 == [st EXCEPT !.recentTxIds = @ \cup {tx.id},
                         !.totalScriptsRuns = @ + app.totalScriptsRuns,
                         !.totalComplexity = @ + app.cplx]
        s2 == [s1 EXCEPT !.diffStor = saveTxDiff(app.diff, @)]
        s3 == IF app.status THEN [s2 EXCEPT !.performed = TRUE] ELSE s2
        s4 == [s3 EXCEPT !.curFees = @ + Fee]
    IN  IF env.commit = "saveTxDiff" THEN [err |-> "commit", st |-> s1]
        ELSE IF app.status /\ env.commit = "performTx" THEN [err |-> "commit", st |-> s2]
        ELSE IF env.commit = "countMinerFee" THEN [err |-> "commit", st |-> s3]
        ELSE IF env.commit = "write" THEN [err |-> "commit", st |-> s4]
        ELSE [err |-> "none", st |-> [s4 EXCEPT !.stor[tx.id] = TxStatus(app.status)]]

\* commitTxApplication calling performTx whatever the application status.
commitTxApplication_AlwaysPerform(tx, params, app, env, st) ==
    LET s1 == [st EXCEPT !.recentTxIds = @ \cup {tx.id},
                         !.totalScriptsRuns = @ + app.totalScriptsRuns,
                         !.totalComplexity = @ + app.cplx]
        s2 == [s1 EXCEPT !.diffStor = saveTxDiff(app.diff, @)]
        s3 == [s2 EXCEPT !.performed = TRUE]
        s4 == [s3 EXCEPT !.curFees = @ + Fee]
    IN  IF env.commit = "saveTxDiff" THEN [err |-> "commit", st |-> s1]
        ELSE IF env.commit = "performTx" THEN [err |-> "commit", st |-> s2]
        ELSE IF params.validatingUtx
             THEN IF env.commit = "write" THEN [err |-> "commit", st |-> s3]
                  ELSE [err |-> "none",
                        st  |-> [s3 EXCEPT !.mem = TxStatus(app.status)]]
             ELSE IF env.commit = "countMinerFee" THEN [err |-> "commit", st |-> s3]
                  ELSE IF env.commit = "write" THEN [err |-> "commit", st |-> s4]
                  ELSE [err |-> "none",
                        st  |-> [s4 EXCEPT !.stor[tx.id] = TxStatus(app.status)]]

\* commitTxApplication without the call of saveTxDiff.
commitTxApplication_NoSaveTxDiff(tx, params, app, env, st) ==
    LET s1 == [st EXCEPT !.recentTxIds = @ \cup {tx.id},
                         !.totalScriptsRuns = @ + app.totalScriptsRuns,
                         !.totalComplexity = @ + app.cplx]
        s3 == IF app.status THEN [s1 EXCEPT !.performed = TRUE] ELSE s1
        s4 == [s3 EXCEPT !.curFees = @ + Fee]
    IN  IF app.status /\ env.commit = "performTx" THEN [err |-> "commit", st |-> s1]
        ELSE IF params.validatingUtx
             THEN IF env.commit = "write" THEN [err |-> "commit", st |-> s3]
                  ELSE [err |-> "none",
                        st  |-> [s3 EXCEPT !.mem = TxStatus(app.status)]]
             ELSE IF env.commit = "countMinerFee" THEN [err |-> "commit", st |-> s3]
                  ELSE IF env.commit = "write" THEN [err |-> "commit", st |-> s4]
                  ELSE [err |-> "none",
                        st  |-> [s4 EXCEPT !.stor[tx.id] = TxStatus(app.status)]]

\* st: the pipeline state before; env.commit names the step that fails, if any.
\* Returns the error and the state the call leaves behind.
commitTxApplication(tx, params, app, env, st) ==
    LET s1 == [st EXCEPT !.recentTxIds = @ \cup {tx.id},
                         !.totalScriptsRuns = @ + app.totalScriptsRuns,
                         !.totalComplexity = @ + app.cplx]
        s2 == [s1 EXCEPT !.diffStor = saveTxDiff(app.diff, @)]
        s3 == IF app.status THEN [s2 EXCEPT !.performed = TRUE] ELSE s2
        s4 == [s3 EXCEPT !.curFees = @ + Fee]
    IN  IF env.commit = "saveTxDiff" THEN [err |-> "commit", st |-> s1]
        ELSE IF app.status /\ env.commit = "performTx" THEN [err |-> "commit", st |-> s2]
        ELSE IF params.validatingUtx
             THEN IF env.commit = "write" THEN [err |-> "commit", st |-> s3]
                  ELSE [err |-> "none",
                        st  |-> [s3 EXCEPT !.mem = TxStatus(app.status)]]
             ELSE IF env.commit = "countMinerFee" THEN [err |-> "commit", st |-> s3]
                  ELSE IF env.commit = "write" THEN [err |-> "commit", st |-> s4]
                  ELSE [err |-> "none",
                        st  |-> [s4 EXCEPT !.stor[tx.id] = TxStatus(app.status)]]

IsFallibleKind(tx, env) ==
    \/ tx.type \in {"InvokeScript", "InvokeExpression", "Exchange"}
    \/ tx.type = "EthereumMetamask" /\ env.ethKind = "invoke"

\* params.acceptFailed as appendTx reads it after the handlers ran:
\* handleExchange overwrites it through the shared params.
acceptFailedAfterHandlers(tx, params) ==
    IF tx.type = "Exchange" THEN params.blockV5Activated /\ params.acceptFailed
    ELSE params.acceptFailed

\* appendTx validating the balance diff in block mode only.
needToValidateBalanceDiff_InBlock(tx, params, env) == ~params.validatingUtx

\* appendTx never validating the balance diff itself.
needToValidateBalanceDiff_Never(tx, params, env) == FALSE

\* appendTx validating the balance diff of every kind in pool mode.
needToValidateBalanceDiff_AlwaysInUtx(tx, params, env) == params.validatingUtx

\* The value appendTx's switch leaves in needToValidateBalanceDiff.
needToValidateBalanceDiff(tx, params, env) ==
    IF tx.type \in {"InvokeScript", "InvokeExpression", "Exchange"}
    THEN params.validatingUtx /\ ~acceptFailedAfterHandlers(tx, params)
    ELSE IF tx.type = "EthereumMetamask"
    THEN IF env.ethKind \in {"transferWaves", "transferAssets"}
         THEN params.validatingUtx ELSE FALSE
    ELSE params.validatingUtx

\* The handler appendTx's switch picks.
dispatch(tx, params, accountHasVerifierScript, env, ds) ==
    LET info == [acceptFailed |-> params.acceptFailed,
                 blockV5Activated |-> params.blockV5Activated,
                 senderScripted |-> accountHasVerifierScript]
    IN  IF tx.type \in {"InvokeScript", "InvokeExpression", "Exchange"}
        THEN handleInvokeOrExchangeTransaction(tx, info, env, ds)
        ELSE IF tx.type = "EthereumMetamask"
        THEN IF env.ethKind = "err" THEN Failure("ethKind")
             ELSE IF env.ethKind = "invoke"
             THEN handleInvokeOrExchangeTransaction(tx, info, env, ds)
             ELSE handleDefaultTransaction(tx, params, accountHasVerifierScript, env)
        ELSE handleDefaultTransaction(tx, params, accountHasVerifierScript, env)

\* appendTx checking the ID for duplication before the protobuf version.
appendTx_DuplicateFirst(tx, params, env, st) ==
    LET rejected(e, sent) ==
            [err |-> e, st |-> st, app |-> NoApp, sent |-> sent, validated |-> FALSE]
        versionErr == checkProtobufVersion(tx, params.blockV5Activated)
        dupErr     == checkDuplicateTxIds(tx, st.recentTxIds, params.timestamp)
        accountHasVerifierScript == env.accScripted
        ver == verifyWavesTxSigAndData(tx, params.validatingUtx, env, accountHasVerifierScript)
        res == dispatch(tx, params, accountHasVerifierScript, env, st.diffStor)
        app == res.app
        validate  == needToValidateBalanceDiff(tx, params, env)
        limitsErr == checkScriptsLimits(st.totalScriptsRuns + app.totalScriptsRuns,
                                        st.totalComplexity + app.cplx)
        commit    == commitTxApplication(tx, params, app, env, st)
    IN  IF dupErr # "none" THEN rejected(dupErr, <<>>)
        ELSE IF versionErr # "none" THEN rejected(versionErr, <<>>)
        ELSE IF ~env.senderOk THEN rejected("sender", <<>>)
        ELSE IF ver.err # "none" THEN rejected(ver.err, ver.sent)
        ELSE IF res.err # "none" THEN rejected(res.err, ver.sent)
        ELSE IF validate /\ ~validateTxDiff(app.diff, st.diffStor)
             THEN rejected("balance", ver.sent)
        ELSE IF limitsErr # "none" THEN rejected(limitsErr, ver.sent)
        ELSE [err |-> commit.err, st |-> commit.st, app |-> app, sent |-> ver.sent,
              validated |-> validate]

\* appendTx adding the transaction's script runs and complexity to the
\* totals before it checks the limits.
appendTx_CountBeforeLimits(tx, params, env, st) ==
    LET rejected(e, sent) ==
            [err |-> e, st |-> st, app |-> NoApp, sent |-> sent, validated |-> FALSE]
        versionErr == checkProtobufVersion(tx, params.blockV5Activated)
        dupErr     == checkDuplicateTxIds(tx, st.recentTxIds, params.timestamp)
        accountHasVerifierScript == env.accScripted
        ver == verifyWavesTxSigAndData(tx, params.validatingUtx, env, accountHasVerifierScript)
        res == dispatch(tx, params, accountHasVerifierScript, env, st.diffStor)
        app == res.app
        validate  == needToValidateBalanceDiff(tx, params, env)
        limitsErr == checkScriptsLimits(st.totalScriptsRuns + app.totalScriptsRuns,
                                        st.totalComplexity + app.cplx)
        counted   == [st EXCEPT !.totalScriptsRuns = @ + app.totalScriptsRuns,
                                !.totalComplexity = @ + app.cplx]
        commit    == commitTxApplication(tx, params, app, env, st)
    IN  IF versionErr # "none" THEN rejected(versionErr, <<>>)
        ELSE IF dupErr # "none" THEN rejected(dupErr, <<>>)
        ELSE IF ~env.senderOk THEN rejected("sender", <<>>)
        ELSE IF ver.err # "none" THEN rejected(ver.err, ver.sent)
        ELSE IF res.err # "none" THEN rejected(res.err, ver.sent)
        ELSE IF validate /\ ~validateTxDiff(app.diff, st.diffStor)
             THEN rejected("balance", ver.sent)
        ELSE IF limitsErr # "none"
             THEN [err |-> limitsErr, st |-> counted, app |-> NoApp, sent |-> ver.sent,
                   validated |-> FALSE]
        ELSE [err |-> commit.err, st |-> commit.st, app |-> app, sent |-> ver.sent,
              validated |-> validate]

\* params: [validatingUtx, acceptFailed, blockV5Activated, timestamp].
\* Returns the error ("none" on success), the pipeline state the call leaves
\* behind, the application result, the task sent to the verifier channel and
\* whether the committed diff went through appendTx's balance validation.
appendTx(tx, params, env, st) ==
    LET rejected(e, sent) ==
            [err |-> e, st |-> st, app |-> NoApp, sent |-> sent, validated |-> FALSE]
        versionErr == checkProtobufVersion(tx, params.blockV5Activated)
        dupErr     == checkDuplicateTxIds(tx, st.recentTxIds, params.timestamp)
        accountHasVerifierScript == env.accScripted
        ver == verifyWavesTxSigAndData(tx, params.validatingUtx, env, accountHasVerifierScript)
        res == dispatch(tx, params, accountHasVerifierScript, env, st.diffStor)
        app == res.app
        validate  == needToValidateBalanceDiff(tx, params, env)
        limitsErr == checkScriptsLimits(st.totalScriptsRuns + app.totalScriptsRuns,
                                        st.totalComplexity + app.cplx)
        commit    == commitTxApplication(tx, params, app, env, st)
    IN  IF versionErr # "none" THEN rejected(versionErr, <<>>)
        ELSE IF dupErr # "none" THEN rejected(dupErr, <<>>)
        ELSE IF ~env.senderOk THEN rejected("sender", <<>>)
        ELSE IF ver.err # "none" THEN rejected(ver.err, ver.sent)
        ELSE IF res.err # "none" THEN rejected(res.err, ver.sent)
        ELSE IF validate /\ ~validateTxDiff(app.diff, st.diffStor)
             THEN rejected("balance", ver.sent)
        ELSE IF limitsErr # "none" THEN rejected(limitsErr, ver.sent)
        ELSE [err |-> commit.err, st |-> commit.st, app |-> app, sent |-> ver.sent,
              validated |-> validate]

\* ------------------------------------------------------------------ inputs

MaxAmount == 1
\* Runs of DefaultMiner.Mine.
MaxMineRuns == 2
\* Transactions other goroutines add to the UTX pool while the miner works.
MaxAdds == 1
Amounts == 1..MaxAmount

\* Every transaction is sent by "A" and moves its amount to "B".
Senders == {"A"}
Txs == [id : TxIDs, type : TxTypes, proto : BOOLEAN, sender : Senders, amount : Amounts]

\* Every collaborator answers favourably and nothing is scripted.
EnvOK ==
    [senderOk |-> TRUE, accScripted |-> FALSE, accOk |-> TRUE, sigOk |-> TRUE,
     sendOk |-> TRUE, o1Scripted |-> FALSE, o2Scripted |-> FALSE, o1Ok |-> TRUE,
     o2Ok |-> TRUE, o1SigOk |-> TRUE, o2SigOk |-> TRUE, checkOk |-> TRUE,
     assets |-> <<>>, invoke |-> "ok", ethKind |-> "transferWaves",
     diffOk |-> TRUE, commit |-> "none"]

AssetOutcomes == UNION {[1..n -> {"T", "F", "E"}] : n \in 0..MaxAssets}

\* The answers the pipeline is driven with, by kind: the favourable ones and
\* the deviations that take the kind down each of its paths.
EnvsOf(type) ==
    {EnvOK} \cup
    CASE type = "Transfer" ->
            {[EnvOK EXCEPT !.accScripted = TRUE],
             [EnvOK EXCEPT !.sigOk = FALSE],
             [EnvOK EXCEPT !.sendOk = FALSE],
             [EnvOK EXCEPT !.assets = <<"T", "T">>],
             [EnvOK EXCEPT !.assets = <<"F">>],
             [EnvOK EXCEPT !.commit = "saveTxDiff"],
             [EnvOK EXCEPT !.commit = "countMinerFee"],
             [EnvOK EXCEPT !.commit = "write"]}
      [] type = "SetAssetScript" ->
            {[EnvOK EXCEPT !.assets = <<"T">>]}
      [] type = "Exchange" ->
            {[EnvOK EXCEPT !.accScripted = TRUE, !.o1Scripted = TRUE],
             [EnvOK EXCEPT !.assets = <<"T", "F">>],
             [EnvOK EXCEPT !.assets = <<"E">>]}
      [] type \in {"InvokeScript", "InvokeExpression"} ->
            {[EnvOK EXCEPT !.invoke = "failed"], [EnvOK EXCEPT !.invoke = "err"]}
      [] type = "EthereumMetamask" ->
            {[EnvOK EXCEPT !.ethKind = "invoke"],
             [EnvOK EXCEPT !.ethKind = "invoke", !.invoke = "failed"],
             [EnvOK EXCEPT !.ethKind = "err"]}
      [] OTHER -> {}

\* The transactions the pipeline is driven with: every kind under every ID;
\* the plain transfer also protobuf-encoded.
PipelineTxs == {tx \in Txs : tx.proto => tx.type = "Transfer"}

\* The timestamps that tell calls with this transaction apart: only the
\* duplicate check of an alias creation reads the timestamp.
TimestampsOf(tx) == IF tx.type = "CreateAlias" THEN Timestamps ELSE {1}

Inputs == UNION {{<<tx, env>> : env \in EnvsOf(tx.type)} : tx \in PipelineTxs}

\* ------------------------------------------------------------------- state

\* What the last operation returned: the error ("none": nil), and of a
\* committed transaction its ID, application status, the diff saved and the
\* status written to in-memory storage. For a turn of appendBlock's loop also
\* what the block has committed so far: the IDs and the sum of the diffs.
\* The error values an operation hands to its caller: nil, the error as
\* appendTx produced it, or that error inside proto.InfoMsg.
NilError == [kind |-> "nil", err |-> "none"]

PlainError(err) == [kind |-> "error", err |-> err]

NewInfoMsg(err) == [kind |-> "InfoMsg", err |-> err]

\* validateNextTx handing appendTx's error on as it is.
validateNextTxReturn_Unwrapped(err) ==
    IF err # "none" THEN PlainError(err) ELSE NilError

\* validateNextTx, after appendTx: if err != nil { return proto.NewInfoMsg(err) }.
validateNextTxReturn(err) ==
    IF err # "none" THEN NewInfoMsg(err) ELSE NilError

\* appendBlock, in its loop: if err := a.appendTx(...); err != nil { return err }.
appendBlockReturn(err) ==
    IF err # "none" THEN PlainError(err) ELSE NilError

Last(op, tx, r, ret, ids, txDiff) ==
    [op |-> op, id |-> tx.id, err |-> r.err, ret |-> ret, status |-> r.app.status,
     diff |-> r.app.diff, mem |-> r.st.mem, ids |-> ids, txDiff |-> txDiff]

LastOp(op, err) ==
    [op |-> op, id |-> 0, err |-> err, ret |-> NilError, status |-> FALSE,
     diff |-> ZeroDiff, mem |-> "none", ids |-> {}, txDiff |-> ZeroDiff]

\* No block is being appended.
NoBlock == [Timestamp |-> 0, pos |-> 0, len |-> 0, base |-> ZeroDiff]

NoArg == [fn |-> "none"]

\* Pop returned nil, or nothing was popped yet.
NoTx == [id |-> 0]

\* The miner before its first Mine: not running, the state mutex free. Of a
\* run it keeps the loop counter i, the popped transaction tx, transactions,
\* the block b handed to Apply, and counts the calls it made (lock, unlock,
\* ValidateNextTx, ResetValidationList) and the transactions it popped.
MineIdle ==
    [pc |-> "idle", runs |-> 0, interrupt |-> FALSE, mutex |-> "free", utx |-> {},
     adds |-> 0, i |-> 0, tx |-> NoTx, popped |-> <<>>, transactions |-> <<>>,
     b |-> <<>>, applied |-> FALSE, locks |-> 0, unlocks |-> 0, validates |-> 0,
     resets |-> 0]

\* Activation follows the feature numbers, as on the chain.
FeatureOrder == <<"SmartAccounts", "SmartAccountTrading", "Ride4DApps",
                  "BlockV5", "RideV5", "RideV6">>
ActivationStages == {{FeatureOrder[i] : i \in 1..n} : n \in 0..Len(FeatureOrder)}

Init ==
    /\ features \in ActivationStages
    /\ recentTxIds = {}
    /\ totalScriptsRuns = 0
    /\ totalComplexity = 0
    /\ diffStor = ZeroDiff
    /\ stor = [i \in TxIDs |-> "none"]
    /\ curFees = 0
    /\ prevFees = 0
    /\ pc = "idle"
    /\ block = NoBlock
    /\ utxSession = FALSE
    /\ ops = 0
    /\ committed = [i \in TxIDs |-> "no"]
    /\ arg = NoArg
    /\ last = LastOp("init", "none")
    /\ mine = MineIdle

\* What commitTxApplication left behind becomes the pipeline state.
Store(st) ==
    /\ recentTxIds' = st.recentTxIds
    /\ diffStor' = st.diffStor
    /\ stor' = st.stor

\* appendBlock returning without its deferred function.
AfterAppendBlock_Keep(counter) == counter

\* appendBlock's deferred function: the value it leaves in totalScriptsRuns
\* and in the block complexity total.
AfterAppendBlock(counter) == 0

\* blockDiffer.createMinerAndRewardDiff: the fees the previous block saved,
\* paid to the miner (address "B"), when the block has a parent.
createMinerAndRewardDiff(hasParent) ==
    [a \in Addrs |-> IF hasParent /\ a = "B" THEN prevFees ELSE 0]

\* appendBlock up to its loop, for a block of n transactions; an empty block
\* runs to the end.
AppendBlockStart(ts, hasParent, n) ==
    /\ pc = "idle"
    /\ ~utxSession
    /\ ops + n <= MaxOps
    /\ diffStor' = saveTxDiff(createMinerAndRewardDiff(hasParent), diffStor)
    /\ IF n = 0
       THEN /\ pc' = "idle"
            /\ block' = NoBlock
            /\ prevFees' = curFees
            /\ curFees' = 0
            /\ totalScriptsRuns' = AfterAppendBlock(totalScriptsRuns)
            /\ totalComplexity' = AfterAppendBlock(totalComplexity)
       ELSE /\ pc' = "block"
            /\ block' = [Timestamp |-> ts, pos |-> 0, len |-> n, base |-> diffStor]
            /\ UNCHANGED <<prevFees, curFees, totalScriptsRuns, totalComplexity>>
    /\ last' = LastOp("appendBlock", "none")
    /\ UNCHANGED <<features, recentTxIds, stor, utxSession, ops, committed, arg>>

\* The parameters appendBlock passes to appendTx for a block with this
\* timestamp.
BlockParamsAt(ts) ==
    [validatingUtx |-> FALSE, acceptFailed |-> newestIsActivated("BlockV5"),
     blockV5Activated |-> newestIsActivated("BlockV5"), timestamp |-> ts]

BlockParams == BlockParamsAt(block.Timestamp)

\* appendBlock resetting the counters at its end instead of in a deferred
\* function: a return with an error leaves them as they are.
AppendBlockTx_ResetAtEnd(tx, env) ==
    /\ pc = "block"
    /\ LET r == appendTx(tx, BlockParams, env, Pipeline)
           done == r.err = "none"
       IN  /\ Store(r.st)
           /\ last' = Last("appendTx", tx, r, appendBlockReturn(r.err),
                           IF done THEN last.ids \cup {tx.id} ELSE last.ids,
                           IF done THEN AddDiff(last.txDiff, r.app.diff) ELSE last.txDiff)
           /\ committed' = IF done THEN [committed EXCEPT ![tx.id] = "block"] ELSE committed
           /\ IF done /\ block.pos + 1 < block.len
              THEN /\ pc' = "block"
                   /\ block' = [block EXCEPT !.pos = @ + 1]
                   /\ totalScriptsRuns' = r.st.totalScriptsRuns
                   /\ totalComplexity' = r.st.totalComplexity
                   /\ curFees' = r.st.curFees
                   /\ UNCHANGED prevFees
              ELSE /\ pc' = "idle"
                   /\ block' = NoBlock
                   /\ IF done
                      THEN /\ totalScriptsRuns' = AfterAppendBlock(r.st.totalScriptsRuns)
                           /\ totalComplexity' = AfterAppendBlock(r.st.totalComplexity)
                           /\ prevFees' = r.st.curFees /\ curFees' = 0
                      ELSE /\ totalScriptsRuns' = r.st.totalScriptsRuns
                           /\ totalComplexity' = r.st.totalComplexity
                           /\ curFees' = r.st.curFees /\ UNCHANGED prevFees
    /\ ops' = ops + 1
    /\ UNCHANGED <<features, utxSession, arg>>

\* appendBlock's loop saving the fee distribution when it leaves the loop,
\* whether or not the transaction was appended.
AppendBlockTx_SaveOnError(tx, env) ==
    /\ pc = "block"
    /\ LET r == appendTx(tx, BlockParams, env, Pipeline)
           done == r.err = "none"
       IN  /\ Store(r.st)
           /\ last' = Last("appendTx", tx, r, appendBlockReturn(r.err),
                           IF done THEN last.ids \cup {tx.id} ELSE last.ids,
                           IF done THEN AddDiff(last.txDiff, r.app.diff) ELSE last.txDiff)
           /\ committed' = IF done THEN [committed EXCEPT ![tx.id] = "block"] ELSE committed
           /\ IF done /\ block.pos + 1 < block.len
              THEN /\ pc' = "block"
                   /\ block' = [block EXCEPT !.pos = @ + 1]
                   /\ totalScriptsRuns' = r.st.totalScriptsRuns
                   /\ totalComplexity' = r.st.totalComplexity
                   /\ curFees' = r.st.curFees
                   /\ UNCHANGED prevFees
              ELSE /\ pc' = "idle"
                   /\ block' = NoBlock
                   /\ totalScriptsRuns' = AfterAppendBlock(r.st.totalScriptsRuns)
                   /\ totalComplexity' = AfterAppendBlock(r.st.totalComplexity)
                   /\ prevFees' = r.st.curFees
                   /\ curFees' = 0
    /\ ops' = ops + 1
    /\ UNCHANGED <<features, utxSession, arg>>

\* One turn of appendBlock's loop; the turn that fails, and the turn of the
\* block's last transaction, run appendBlock to its end.
AppendBlockTx(tx, env) ==
    /\ pc = "block"
    /\ LET r == appendTx(tx, BlockParams, env, Pipeline)
           done == r.err = "none"
       IN  /\ Store(r.st)
           /\ last' = Last("appendTx", tx, r, appendBlockReturn(r.err),
                           IF done THEN last.ids \cup {tx.id} ELSE last.ids,
                           IF done THEN AddDiff(last.txDiff, r.app.diff) ELSE last.txDiff)
           /\ committed' = IF done THEN [committed EXCEPT ![tx.id] = "block"] ELSE committed
           /\ IF done /\ block.pos + 1 < block.len
              THEN /\ pc' = "block"
                   /\ block' = [block EXCEPT !.pos = @ + 1]
                   /\ totalScriptsRuns' = r.st.totalScriptsRuns
                   /\ totalComplexity' = r.st.totalComplexity
                   /\ curFees' = r.st.curFees
                   /\ UNCHANGED prevFees
              ELSE /\ pc' = "idle"
                   /\ block' = NoBlock
                   /\ totalScriptsRuns' = AfterAppendBlock(r.st.totalScriptsRuns)
                   /\ totalComplexity' = AfterAppendBlock(r.st.totalComplexity)
                   /\ IF done
                      THEN prevFees' = r.st.curFees /\ curFees' = 0
                      ELSE curFees' = r.st.curFees /\ UNCHANGED prevFees
    /\ ops' = ops + 1
    /\ UNCHANGED <<features, utxSession, arg>>

\* The parameters validateNextTx passes to appendTx; blockTimestamp is the
\* timestamp of the header a.currentBlock() reads from storage.
UtxParams(acceptFailed, blockTimestamp) ==
    [validatingUtx |-> TRUE, acceptFailed |-> acceptFailed,
     blockV5Activated |-> newestIsActivated("BlockV5"), timestamp |-> blockTimestamp]

ValidateNextTx(tx, env, acceptFailed, blockTimestamp) ==
    /\ pc = "idle"
    /\ ops < MaxOps
    /\ LET r == appendTx(tx, UtxParams(acceptFailed, blockTimestamp), env, Pipeline)
       IN  /\ Store(r.st)
           /\ totalScriptsRuns' = r.st.totalScriptsRuns
           /\ totalComplexity' = r.st.totalComplexity
           /\ curFees' = r.st.curFees
           /\ last' = Last("validateNextTx", tx, r, validateNextTxReturn(r.err),
                        {}, ZeroDiff)
           /\ committed' = IF r.err = "none" /\ committed[tx.id] = "no"
                           THEN [committed EXCEPT ![tx.id] = "utx"] ELSE committed
    /\ utxSession' = TRUE
    /\ ops' = ops + 1
    /\ UNCHANGED <<features, prevFees, pc, block, arg>>

\* reset() leaving the recent-ID set as it is.
Reset_KeepRecentTxIds ==
    /\ pc = "idle"
    /\ totalComplexity' = 0
    /\ totalScriptsRuns' = 0
    /\ diffStor' = ZeroDiff
    /\ curFees' = 0
    /\ prevFees' = 0
    /\ utxSession' = FALSE
    /\ ops' = 0
    /\ last' = LastOp("reset", "none")
    /\ UNCHANGED <<features, recentTxIds, stor, pc, block, committed, arg>>

Reset ==
    /\ pc = "idle"
    /\ totalComplexity' = 0
    /\ totalScriptsRuns' = 0
    /\ recentTxIds' = {}
    /\ diffStor' = ZeroDiff
    /\ curFees' = 0
    /\ prevFees' = 0
    /\ utxSession' = FALSE
    /\ ops' = 0
    /\ last' = LastOp("reset", "none")
    /\ UNCHANGED <<features, stor, pc, block, committed, arg>>

Next ==
    \/ \E ts \in Timestamps, hasParent \in BOOLEAN, n \in 0..MaxBlockLen :
          AppendBlockStart(ts, hasParent, n) /\ UNCHANGED mine
    \/ \E in \in Inputs : AppendBlockTx(in[1], in[2]) /\ UNCHANGED mine
    \/ \E in \in Inputs, acceptFailed \in BOOLEAN :
          \E ts \in TimestampsOf(in[1]) :
             ValidateNextTx(in[1], in[2], acceptFailed, ts) /\ UNCHANGED mine
    \/ Reset /\ UNCHANGED mine

Spec == Init /\ [][Next]_vars

\* ---------------------------------------------------------------------------
\* DefaultMiner.Mine, one action per call it makes, driving the pipeline
\* through state.ValidateNextTx and state.ResetValidationList. Other goroutines
\* call Interrupt and add transactions to the UTX pool at any moment.

\* for i := 0; i < 100; i++
mineLoopLimit == 2

PipelineVars == <<features, recentTxIds, totalScriptsRuns, totalComplexity, diffStor,
                  stor, curFees, prevFees, pc, block, utxSession, ops, committed, arg,
                  last>>

\* The transactions the pool can hold and the answers their validation gets.
MineTxs == {tx \in PipelineTxs : tx.type = "Transfer" /\ ~tx.proto}

MineEnvs == {EnvOK, [EnvOK EXCEPT !.sigOk = FALSE]}

\* Mine up to the lock: interrupt.Store(false), state.Block(parent) and
\* blockVersion(state), either of which can fail and end the run.
MineStart(blockOk, versionOk) ==
    /\ mine.pc \in {"idle", "done"}
    /\ mine.runs < MaxMineRuns
    /\ mine' = [mine EXCEPT !.runs = @ + 1, !.interrupt = FALSE,
                            !.pc = IF blockOk /\ versionOk THEN "lock" ELSE "done",
                            !.i = 0, !.tx = NoTx, !.popped = <<>>,
                            !.transactions = <<>>, !.b = <<>>, !.applied = FALSE,
                            !.locks = 0, !.unlocks = 0, !.validates = 0, !.resets = 0]
    /\ UNCHANGED PipelineVars

\* mu := a.state.Mutex(); locked := mu.Lock()
MineLock ==
    /\ mine.pc = "lock"
    /\ mine.mutex = "free"
    /\ mine' = [mine EXCEPT !.mutex = "miner", !.locks = @ + 1, !.i = 0, !.pc = "loop"]
    /\ UNCHANGED PipelineVars

\* The loop condition and tx := a.utx.Pop(); if tx == nil { break }.
MinePop ==
    /\ mine.pc = "loop"
    /\ IF mine.i < mineLoopLimit /\ mine.utx # {}
       THEN \E tx \in mine.utx :
               mine' = [mine EXCEPT !.utx = @ \ {tx}, !.tx = tx,
                                    !.popped = Append(@, tx), !.pc = "interrupt"]
       ELSE mine' = [mine EXCEPT !.tx = NoTx, !.pc = "reset"]
    /\ UNCHANGED PipelineVars

\* Mine going on to ValidateNextTx whatever the interrupt flag holds.
MineInterruptLoad_Ignored ==
    /\ mine.pc = "interrupt"
    /\ mine' = [mine EXCEPT !.pc = "validate"]
    /\ UNCHANGED PipelineVars

\* if a.interrupt.Load() { ... }
MineInterruptLoad ==
    /\ mine.pc = "interrupt"
    /\ mine' = [mine EXCEPT !.pc = IF mine.interrupt THEN "resetInterrupted"
                                   ELSE "validate"]
    /\ UNCHANGED PipelineVars

\* Mine putting a transaction that ValidateNextTx rejected back into the pool.
MineValidateNextTx_ReturnInvalid ==
    /\ mine.pc = "validate"
    /\ \E env \in MineEnvs, acceptFailed \in BOOLEAN :
          ValidateNextTx(mine.tx, env, acceptFailed, 1)
    /\ mine' = [mine EXCEPT !.transactions = IF last'.ret = NilError
                                             THEN Append(@, mine.tx) ELSE @,
                            !.utx = IF last'.ret = NilError
                                    THEN @ ELSE @ \cup {mine.tx},
                            !.i = @ + 1, !.validates = @ + 1, !.pc = "loop"]

\* Mine keeping every popped transaction, whatever ValidateNextTx returned.
MineValidateNextTx_AppendAll ==
    /\ mine.pc = "validate"
    /\ \E env \in MineEnvs, acceptFailed \in BOOLEAN :
          ValidateNextTx(mine.tx, env, acceptFailed, 1)
    /\ mine' = [mine EXCEPT !.transactions = Append(@, mine.tx),
                            !.i = @ + 1, !.validates = @ + 1, !.pc = "loop"]

\* if err = a.state.ValidateNextTx(tx.T, ...); err == nil { append }, and i++.
\* The accept-failed flag and the current block are the state's choice.
MineValidateNextTx ==
    /\ mine.pc = "validate"
    /\ \E env \in MineEnvs, acceptFailed \in BOOLEAN :
          ValidateNextTx(mine.tx, env, acceptFailed, 1)
    /\ mine' = [mine EXCEPT !.transactions = IF last'.ret = NilError
                                             THEN Append(@, mine.tx) ELSE @,
                            !.i = @ + 1, !.validates = @ + 1, !.pc = "loop"]

\* Mine leaving the validation list as it is when it was interrupted.
MineResetValidationList_NotInterrupted ==
    /\ mine.pc \in {"reset", "resetInterrupted"}
    /\ IF mine.pc = "reset"
       THEN /\ Reset
            /\ mine' = [mine EXCEPT !.resets = @ + 1, !.pc = "unlock"]
       ELSE /\ mine' = [mine EXCEPT !.pc = "unlockInterrupted"]
            /\ UNCHANGED PipelineVars

\* a.state.ResetValidationList(), after the loop and on the interrupt path.
MineResetValidationList ==
    /\ mine.pc \in {"reset", "resetInterrupted"}
    /\ Reset
    /\ mine' = [mine EXCEPT !.resets = @ + 1,
                            !.pc = IF mine.pc = "reset" THEN "unlock"
                                   ELSE "unlockInterrupted"]

\* Mine returning from the interrupt path with the mutex still held.
MineUnlock_NotInterrupted ==
    /\ mine.pc \in {"unlock", "unlockInterrupted"}
    /\ mine' = IF mine.pc = "unlock"
               THEN [mine EXCEPT !.mutex = "free", !.unlocks = @ + 1, !.pc = "create"]
               ELSE [mine EXCEPT !.pc = "done"]
    /\ UNCHANGED PipelineVars

\* locked.Unlock(); on the interrupt path Mine then returns.
MineUnlock ==
    /\ mine.pc \in {"unlock", "unlockInterrupted"}
    /\ mine' = [mine EXCEPT !.mutex = "free", !.unlocks = @ + 1,
                            !.pc = IF mine.pc = "unlock" THEN "create" ELSE "done"]
    /\ UNCHANGED PipelineVars

\* transactions.WriteTo, k.Public, proto.CreateBlock, k.Private, b.Sign: Mine
\* returns at the first that fails.
MineCreateBlock(ok) ==
    /\ mine.pc = "create"
    /\ mine' = IF ok THEN [mine EXCEPT !.b = mine.transactions, !.pc = "apply"]
               ELSE [mine EXCEPT !.pc = "done"]
    /\ UNCHANGED PipelineVars

\* a.services.BlockApplier.Apply(b); its error is only logged.
MineApply ==
    /\ mine.pc = "apply"
    /\ mine' = [mine EXCEPT !.applied = TRUE, !.pc = "done"]
    /\ UNCHANGED PipelineVars

\* DefaultMiner.Interrupt, from another goroutine.
Interrupt ==
    /\ ~mine.interrupt
    /\ mine' = [mine EXCEPT !.interrupt = TRUE]
    /\ UNCHANGED PipelineVars

\* Another goroutine adds a transaction the pool does not hold.
UtxAdd(tx) ==
    /\ tx \notin mine.utx
    /\ mine.adds < MaxAdds
    /\ mine' = [mine EXCEPT !.utx = @ \cup {tx}, !.adds = @ + 1]
    /\ UNCHANGED PipelineVars

InitMine ==
    /\ features \in ActivationStages
    /\ recentTxIds = {}
    /\ totalScriptsRuns = 0
    /\ totalComplexity = 0
    /\ diffStor = ZeroDiff
    /\ stor = [i \in TxIDs |-> "none"]
    /\ curFees = 0
    /\ prevFees = 0
    /\ pc = "idle"
    /\ block = NoBlock
    /\ utxSession = FALSE
    /\ ops = 0
    /\ committed = [i \in TxIDs |-> "no"]
    /\ arg = NoArg
    /\ last = LastOp("init", "none")
    /\ \E pool \in SUBSET MineTxs : mine = [MineIdle EXCEPT !.utx = pool]

NextMine ==
    \/ \E blockOk \in BOOLEAN, versionOk \in BOOLEAN : MineStart(blockOk, versionOk)
    \/ MineLock
    \/ MinePop
    \/ MineInterruptLoad
    \/ MineValidateNextTx
    \/ MineResetValidationList
    \/ MineUnlock
    \/ \E ok \in BOOLEAN : MineCreateBlock(ok)
    \/ MineApply
    \/ Interrupt
    \/ \E tx \in MineTxs : UtxAdd(tx)

SpecMine == InitMine /\ [][NextMine]_vars

\* ------------------------------------------- handleExchange called alone

\* The answers an exchange can get: the orders scripted or not, at most one
\* script or check that fails, and every outcome of its smart assets.
ExchangeFaults == {"none", "accOk", "o1Ok", "o2Ok", "checkOk", "diffOk"}

ExchangeEnvs ==
    {[EnvOK EXCEPT !.o1Scripted = o1, !.o2Scripted = o2, !.assets = assets,
                   !.accOk = fault # "accOk", !.o1Ok = fault # "o1Ok",
                   !.o2Ok = fault # "o2Ok", !.checkOk = fault # "checkOk",
                   !.diffOk = fault # "diffOk"] :
        o1 \in BOOLEAN, o2 \in BOOLEAN, assets \in AssetOutcomes, fault \in ExchangeFaults}

ExchangeInfos ==
    [acceptFailed : BOOLEAN, blockV5Activated : BOOLEAN, senderScripted : BOOLEAN]

ExchangeArgs ==
    {[fn |-> "handleExchange", tx |-> tx, info |-> info, env |-> env] :
        tx \in {t \in Txs : t.type = "Exchange" /\ t.id = 1 /\ ~t.proto},
        info \in ExchangeInfos, env \in ExchangeEnvs}

\* The working diff sets the call can find: empty, or after one commit.
ExchangeDiffStors == {ZeroDiff} \cup {createTransactionDiff(tx) : tx \in Txs}

\* The two features handleExchange reads, activated in any combination.
ExchangeFeatures == SUBSET {"SmartAccountTrading", "Ride4DApps"}

InitExchange ==
    /\ features \in ExchangeFeatures
    /\ arg \in ExchangeArgs
    /\ diffStor \in ExchangeDiffStors
    /\ recentTxIds = {}
    /\ totalScriptsRuns = 0
    /\ totalComplexity = 0
    /\ stor = [i \in TxIDs |-> "none"]
    /\ curFees = 0
    /\ prevFees = 0
    /\ pc = "idle"
    /\ block = NoBlock
    /\ utxSession = FALSE
    /\ ops = 0
    /\ committed = [i \in TxIDs |-> "no"]
    /\ last = LastOp("init", "none")
    /\ mine = MineIdle

CallHandleExchange ==
    /\ arg.fn = "handleExchange"
    /\ last.op = "init"
    /\ LET r == handleExchange(arg.tx, arg.info, arg.env, diffStor)
       IN  last' = [op |-> "handleExchange", err |-> r.err, status |-> r.app.status,
                    runs |-> r.app.totalScriptsRuns, diff |-> r.app.diff]
    /\ UNCHANGED <<features, recentTxIds, totalScriptsRuns, totalComplexity, diffStor,
                   stor, curFees, prevFees, pc, block, utxSession, ops, committed, arg,
                   mine>>

NextExchange == CallHandleExchange

SpecExchange == InitExchange /\ [][NextExchange]_vars

\* ---------------------------------------------------------------------------
\* checkTransactionScripts alone: Init draws one call, the action applies it.
\* checkTx reports a SetAssetScript transaction's own asset as its only smart
\* asset; a transfer can move up to MaxAssets smart assets.
ScriptsEnvs(type) ==
    {[EnvOK EXCEPT !.accOk = accOk, !.checkOk = checkOk, !.assets = assets] :
        accOk \in BOOLEAN, checkOk \in BOOLEAN,
        assets \in IF type = "SetAssetScript"
                   THEN {a \in AssetOutcomes : Len(a) = 1} ELSE AssetOutcomes}

ScriptsArgs ==
    UNION {{[fn |-> "checkTransactionScripts", tx |-> tx, accountScripted |-> acc,
             env |-> env, acceptFailed |-> af] :
                acc \in BOOLEAN, af \in BOOLEAN, env \in ScriptsEnvs(tx.type)} :
           tx \in {t \in Txs : t.type \in {"SetAssetScript", "Transfer"} /\ t.id = 1}}

InitScripts ==
    /\ features \in ActivationStages
    /\ arg \in ScriptsArgs
    /\ diffStor = ZeroDiff
    /\ recentTxIds = {}
    /\ totalScriptsRuns = 0
    /\ totalComplexity = 0
    /\ stor = [i \in TxIDs |-> "none"]
    /\ curFees = 0
    /\ prevFees = 0
    /\ pc = "idle"
    /\ block = NoBlock
    /\ utxSession = FALSE
    /\ ops = 0
    /\ committed = [i \in TxIDs |-> "no"]
    /\ last = LastOp("init", "none")
    /\ mine = MineIdle

CallCheckTransactionScripts ==
    /\ arg.fn = "checkTransactionScripts"
    /\ last.op = "init"
    /\ LET r == checkTransactionScripts(arg.tx, arg.accountScripted, arg.env,
                                        arg.acceptFailed)
       IN  last' = [op |-> "checkTransactionScripts", err |-> r.err, runs |-> r.runs,
                    cplx |-> r.cplx]
    /\ UNCHANGED <<features, recentTxIds, totalScriptsRuns, totalComplexity, diffStor,
                   stor, curFees, prevFees, pc, block, utxSession, ops, committed, arg,
                   mine>>

NextScripts == CallCheckTransactionScripts

SpecScripts == InitScripts /\ [][NextScripts]_vars

\* ---------------------------------------------------------------------------
\* handleFallible alone: Init draws one call and the working diff set it
\* finds, the action applies it.
FallibleTypes == {"Exchange", "InvokeScript", "InvokeExpression", "EthereumMetamask"}

FallibleArgs ==
    {[fn |-> "handleFallible", tx |-> tx, info |-> info, env |-> env] :
        tx \in {t \in Txs : t.type \in FallibleTypes \cup {"Transfer"}
                              /\ t.id = 1 /\ ~t.proto},
        info \in ExchangeInfos,
        env \in {[e EXCEPT !.accOk = accOk] :
                    e \in UNION {EnvsOf(type) : type \in FallibleTypes},
                    accOk \in BOOLEAN}}

\* The working diff sets the call can find: after 0..MaxOps commits of the
\* sender's transactions.
FallibleDiffStors ==
    {[a \in Addrs |-> k * createTransactionDiff(tx)[a]] : tx \in Txs, k \in 0..MaxOps}

InitFallible ==
    /\ features \in ExchangeFeatures
    /\ arg \in FallibleArgs
    /\ diffStor \in FallibleDiffStors
    /\ recentTxIds = {}
    /\ totalScriptsRuns = 0
    /\ totalComplexity = 0
    /\ stor = [i \in TxIDs |-> "none"]
    /\ curFees = 0
    /\ prevFees = 0
    /\ pc = "idle"
    /\ block = NoBlock
    /\ utxSession = FALSE
    /\ ops = 0
    /\ committed = [i \in TxIDs |-> "no"]
    /\ last = LastOp("init", "none")
    /\ mine = MineIdle

CallHandleFallible ==
    /\ arg.fn = "handleFallible"
    /\ last.op = "init"
    /\ LET r == handleFallible(arg.tx, arg.info, arg.env, diffStor)
       IN  last' = [op |-> "handleFallible", err |-> r.err, status |-> r.app.status,
                    runs |-> r.app.totalScriptsRuns, diff |-> r.app.diff]
    /\ UNCHANGED <<features, recentTxIds, totalScriptsRuns, totalComplexity, diffStor,
                   stor, curFees, prevFees, pc, block, utxSession, ops, committed, arg,
                   mine>>

NextFallible == CallHandleFallible

SpecFallible == InitFallible /\ [][NextFallible]_vars

\* ---------------------------------------------------------------------------
\* checkScriptsLimits alone, called as appendTx calls it: Init draws the
\* block's totals and the runs and complexity of the transaction's scripts,
\* the action applies the check to the sums.
LimitsFeatures == SUBSET {"SmartAccounts", "Ride4DApps", "RideV5", "RideV6"}

LimitsArgs ==
    {[fn |-> "checkScriptsLimits", runs |-> runs, cplx |-> cplx] :
        runs \in 0..MaxAssets, cplx \in 0..(MaxAssets * ScriptCost)}

InitLimits ==
    /\ features \in LimitsFeatures
    /\ arg \in LimitsArgs
    /\ totalScriptsRuns \in 0..maxScriptsRunsInBlock
    /\ totalComplexity \in 0..MaxComplexityAfterRideV5
    /\ diffStor = ZeroDiff
    /\ recentTxIds = {}
    /\ stor = [i \in TxIDs |-> "none"]
    /\ curFees = 0
    /\ prevFees = 0
    /\ pc = "idle"
    /\ block = NoBlock
    /\ utxSession = FALSE
    /\ ops = 0
    /\ committed = [i \in TxIDs |-> "no"]
    /\ last = LastOp("init", "none")
    /\ mine = MineIdle

CallCheckScriptsLimits ==
    /\ arg.fn = "checkScriptsLimits"
    /\ last.op = "init"
    /\ last' = [op |-> "checkScriptsLimits",
                err |-> checkScriptsLimits(totalScriptsRuns + arg.runs,
                                           totalComplexity + arg.cplx)]
    /\ UNCHANGED <<features, recentTxIds, totalScriptsRuns, totalComplexity, diffStor,
                   stor, curFees, prevFees, pc, block, utxSession, ops, committed, arg,
                   mine>>

NextLimits == CallCheckScriptsLimits

SpecLimits == InitLimits /\ [][NextLimits]_vars

\* ---------------------------------------------------------------------------
\* verifyWavesTxSigAndData alone, and the appendTx call around it: Init draws
\* the transaction, the mode, which accounts are scripted and which
\* signatures are valid; the action applies both.
VerifyEnvs ==
    {[EnvOK EXCEPT !.accScripted = acc, !.o1Scripted = o1, !.o2Scripted = o2,
                   !.sigOk = sig, !.o1SigOk = s1, !.o2SigOk = s2, !.sendOk = send] :
        acc \in BOOLEAN, o1 \in BOOLEAN, o2 \in BOOLEAN, sig \in BOOLEAN,
        s1 \in BOOLEAN, s2 \in BOOLEAN, send \in BOOLEAN}

VerifyArgs ==
    {[fn |-> "verifyWavesTxSigAndData", tx |-> tx, validatingUtx |-> utx, env |-> env] :
        tx \in {t \in Txs : t.type \in {"Transfer", "Exchange"} /\ t.id = 1 /\ ~t.proto},
        utx \in BOOLEAN, env \in VerifyEnvs}

InitVerify ==
    /\ features \in ActivationStages
    /\ arg \in VerifyArgs
    /\ diffStor = ZeroDiff
    /\ recentTxIds = {}
    /\ totalScriptsRuns = 0
    /\ totalComplexity = 0
    /\ stor = [i \in TxIDs |-> "none"]
    /\ curFees = 0
    /\ prevFees = 0
    /\ pc = "idle"
    /\ block = NoBlock
    /\ utxSession = FALSE
    /\ ops = 0
    /\ committed = [i \in TxIDs |-> "no"]
    /\ last = LastOp("init", "none")
    /\ mine = MineIdle

CallVerifyWavesTxSigAndData ==
    /\ arg.fn = "verifyWavesTxSigAndData"
    /\ last.op = "init"
    /\ LET ver == verifyWavesTxSigAndData(arg.tx, arg.validatingUtx, arg.env,
                                          arg.env.accScripted)
           params == IF arg.validatingUtx THEN UtxParams(FALSE, 1) ELSE BlockParamsAt(1)
           r == appendTx(arg.tx, params, arg.env, Pipeline)
       IN  last' = [op |-> "verifyWavesTxSigAndData", err |-> ver.err,
                    sent |-> ver.sent, appendTxErr |-> r.err, appendTxSent |-> r.sent]
    /\ UNCHANGED <<features, recentTxIds, totalScriptsRuns, totalComplexity, diffStor,
                   stor, curFees, prevFees, pc, block, utxSession, ops, committed, arg,
                   mine>>

NextVerify == CallVerifyWavesTxSigAndData

SpecVerify == InitVerify /\ [][NextVerify]_vars


\* ------------------------------------------------------------------ claims

\* The parameters appendTx can be called with in the current state: by
\* validateNextTx with either accept-failed flag, or by appendBlock.
AllParams(tx) ==
    UNION {{UtxParams(TRUE, ts), UtxParams(FALSE, ts), BlockParamsAt(ts)} :
           ts \in TimestampsOf(tx)}

DuplicateErrors == {"duplicate", "aliasTaken"}

\* The kinds checkDuplicateTxIds lets through: payments, and alias creation
\* inside the stolen-aliases window.
DuplicateExempt(tx, timestamp) ==
    \/ tx.type = "Payment"
    \/ /\ tx.type = "CreateAlias"
       /\ timestamp >= StolenAliasesWindowTimeStart
       /\ timestamp <= StolenAliasesWindowTimeEnd

\* A transaction offered again is the transaction that was committed, so it
\* passes the version check it passed then.
SameTxAgain(tx, params) == checkProtobufVersion(tx, params.blockV5Activated) = "none"

\* C1 as stated: a transaction whose ID appendTx has committed at any time
\* before, by either entry point, is rejected with a duplicate-ID error,
\* unless it is a payment or an alias creation inside the window.
C1_Original ==
    \A in \in Inputs : \A params \in AllParams(in[1]) :
        (/\ committed[in[1].id] # "no"
         /\ ~DuplicateExempt(in[1], params.timestamp)
         /\ SameTxAgain(in[1], params))
        => appendTx(in[1], params, in[2], Pipeline).err \in DuplicateErrors

\* C1 amended: a transaction whose ID is still in the recent-ID set, or was
\* committed by appendBlock (and so written to durable storage), is rejected
\* with a duplicate-ID error, unless it is a payment or an alias creation
\* inside the window.
C1_Duplicates ==
    \A in \in Inputs : \A params \in AllParams(in[1]) :
        (/\ in[1].id \in recentTxIds \/ committed[in[1].id] = "block"
         /\ ~DuplicateExempt(in[1], params.timestamp)
         /\ SameTxAgain(in[1], params))
        => appendTx(in[1], params, in[2], Pipeline).err \in DuplicateErrors

\* validateNextTx has just rejected as a duplicate an ID that a block
\* committed and that is no longer in the recent-ID set.
C1_Witness ==
    /\ last.op = "validateNextTx"
    /\ last.err \in DuplicateErrors
    /\ committed[last.id] = "block"
    /\ last.id \notin recentTxIds

\* appendBlock has returned with the error of one of its transactions.
BlockFailed == pc = "idle" /\ last.op = "appendTx" /\ last.err # "none"

\* C2: when appendTx fails on a transaction of a block, appendBlock returns
\* the error and the block commits nothing: none of the block's transactions
\* (last.ids: those appendTx committed before the failing one) is in durable
\* storage or in the recent-ID set, and the working diff set holds none of
\* their diffs (last.txDiff).
C2_NoPartialBlock ==
    BlockFailed =>
        /\ \A id \in last.ids : id \notin recentTxIds /\ stor[id] = "none"
        /\ last.txDiff = ZeroDiff

\* The transaction's diff, on top of the durable balances and the working
\* diff set, would make a balance negative.
Insufficient(tx) == ~validateTxDiff(createTransactionDiff(tx), diffStor)

\* Accept-failed is active for the transaction: the caller's flag, which for
\* an exchange counts only once BlockV5 is activated.
AcceptFailedActive(tx, params) ==
    /\ params.acceptFailed
    /\ tx.type = "Exchange" => params.blockV5Activated

BlockDiffsSoFar(hasParent) ==
    AddDiff(AddDiff(block.base, createMinerAndRewardDiff(hasParent)), last.txDiff)

\* C5: inside appendBlock's loop, before the transaction at position pos + 1
\* is validated, the working diff set holds the miner/reward diff and the
\* diffs of the transactions 1..pos in that order of accumulation, and the
\* balance validation of the next transaction (the one handleExchange runs in
\* block mode) is decided against exactly these diffs.
C5_BlockOrder ==
    pc = "block" =>
        \E hasParent \in BOOLEAN :
            /\ diffStor = BlockDiffsSoFar(hasParent)
            /\ \A in \in Inputs :
                  LET r == appendTx(in[1], BlockParams, in[2], Pipeline)
                  IN  (/\ in[1].type = "Exchange"
                       /\ in[2] = EnvOK
                       /\ newestIsActivated("BlockV5")
                       /\ r.err = "none")
                      => (r.app.status <=>
                            validateTxDiff(createTransactionDiff(in[1]),
                                           BlockDiffsSoFar(hasParent)))

\* The block's first transaction is committed, and an exchange that the
\* balances at the block's start would cover is now recorded as failed.
C5_Witness ==
    /\ pc = "block"
    /\ block.pos = 1
    /\ last.txDiff # ZeroDiff
    /\ \E in \in Inputs :
          LET r == appendTx(in[1], BlockParams, in[2], Pipeline)
          IN  /\ in[1].type = "Exchange"
              /\ in[2] = EnvOK
              /\ r.err = "none"
              /\ ~r.app.status
              /\ validateTxDiff(createTransactionDiff(in[1]), block.base)

\* C6: after reset() the script-run counter and the block complexity total
\* are 0 and the recent-ID set and the working diff set are empty; an ID that
\* only a pool batch before the reset committed (so that only the recent-ID
\* set made it a duplicate) is not rejected as a duplicate by the next
\* validateNextTx, and once that call has committed it, it is a duplicate
\* again.
C6_Reset ==
    last.op = "reset" =>
        /\ totalScriptsRuns = 0
        /\ totalComplexity = 0
        /\ recentTxIds = {}
        /\ diffStor = ZeroDiff
        /\ \A in \in Inputs, acceptFailed \in BOOLEAN :
              \A ts \in TimestampsOf(in[1]) :
                LET tx == in[1]
                    r  == appendTx(tx, UtxParams(acceptFailed, ts), in[2], Pipeline)
                IN  committed[tx.id] = "utx" =>
                        /\ r.err \notin DuplicateErrors
                        /\ (r.err = "none" /\ ~DuplicateExempt(tx, ts))
                           => appendTx(tx, UtxParams(acceptFailed, ts), in[2], r.st).err
                                 \in DuplicateErrors

\* reset() has just run after a pool batch that committed an ID, and
\* validateNextTx would now accept a transaction with that ID.
C6_Witness ==
    /\ last.op = "reset"
    /\ \E in \in Inputs :
          /\ committed[in[1].id] = "utx"
          /\ ~DuplicateExempt(in[1], 1)
          /\ appendTx(in[1], UtxParams(FALSE, 1), in[2], Pipeline).err = "none"

\* A block or a pool batch can start in this state: appendBlock is not
\* running and no pool batch is open.
BatchCanStart == pc = "idle" /\ ~utxSession

\* A step inside a batch: a turn of appendBlock's loop that is not the
\* block's last, or a validateNextTx call.
InBatchStep == (pc = "block" /\ pc' = "block") \/ last'.op = "validateNextTx"

C8_FailedCommit ==
    /\ \A in \in Inputs : \A params \in AllParams(in[1]) :
          LET tx == in[1]
              r  == appendTx(tx, params, in[2], Pipeline)
              failedChanges == createFailedTransactionDiff(tx)
          IN  (r.err = "none" /\ ~r.app.status) =>
                  /\ tx.id \in r.st.recentTxIds
                  /\ r.app.diff = failedChanges
                  /\ r.st.diffStor = AddDiff(diffStor, failedChanges)
                  /\ IF params.validatingUtx
                     THEN r.st.mem = "failed" /\ r.st.stor = stor
                     ELSE r.st.stor[tx.id] = "failed" /\ r.st.mem = "none"
                  /\ ~r.st.performed
    /\ (last.op \in {"appendTx", "validateNextTx"} /\ last.err = "none" /\ ~last.status) =>
          /\ last.id \in recentTxIds
          /\ \E tx \in Txs : tx.id = last.id /\ last.diff = createFailedTransactionDiff(tx)
          /\ last.op = "validateNextTx" => last.mem = "failed"
          /\ last.op = "appendTx" => stor[last.id] = "failed" /\ last.mem = "none"

\* A turn of appendBlock's loop has just committed a transaction as failed.
C8_Witness ==
    /\ last.op = "appendTx"
    /\ last.err = "none"
    /\ ~last.status
    /\ stor[last.id] = "failed"
    /\ last.id \in recentTxIds

\* handleExchange was called with accept-failed active, every account and
\* order script passed, and the first smart-asset script that does not pass
\* returns a negative result.
AssetScriptNegative ==
    /\ last.op = "handleExchange"
    /\ last.err = "none"
    /\ arg.info.acceptFailed /\ arg.info.blockV5Activated
    /\ FirstNotPassed(arg.env.assets) # 0
    /\ arg.env.assets[FirstNotPassed(arg.env.assets)] = "F"

\* The account and order scripts handleExchange ran before the asset scripts.
RunsBeforeAssets ==
    Bit(arg.info.senderScripted)
    + (IF newestIsActivated("SmartAccountTrading")
       THEN Bit(arg.env.o1Scripted) + Bit(arg.env.o2Scripted) ELSE 0)

\* C9 as stated: when the k-th smart-asset script returns a negative result
\* under accept-failed, handleExchange returns status=false with the failed
\* diff and reports the scripts that executed up to the failing one (with or
\* without the failing one itself), not the asset scripts after it.
C9_Original ==
    AssetScriptNegative =>
        /\ ~last.status
        /\ last.diff = createFailedTransactionDiff(arg.tx)
        /\ last.runs >= RunsBeforeAssets + FirstNotPassed(arg.env.assets) - 1
        /\ last.runs <= RunsBeforeAssets + FirstNotPassed(arg.env.assets)

\* C9 amended: in that case handleExchange returns status=false with the
\* failed diff, and the script runs it reports are 0 when Ride4DApps is not
\* activated and otherwise the account and order scripts that ran plus all
\* smart assets of the transaction, those after the failing one included.
C9_ExchangeRuns ==
    AssetScriptNegative =>
        /\ ~last.status
        /\ last.diff = createFailedTransactionDiff(arg.tx)
        /\ last.runs = IF newestIsActivated("Ride4DApps")
                       THEN RunsBeforeAssets + Len(arg.env.assets)
                       ELSE 0

\* The first of two smart-asset scripts returned a negative result and the
\* second, which never ran, is counted.
C9_Witness ==
    /\ AssetScriptNegative
    /\ FirstNotPassed(arg.env.assets) < Len(arg.env.assets)
    /\ newestIsActivated("Ride4DApps")
    /\ last.runs = RunsBeforeAssets + Len(arg.env.assets)
    /\ ~last.status

\* C10: a transaction that validateNextTx commits is written to in-memory
\* storage, durable storage is left as it was and no miner fee is counted; a
\* transaction that appendBlock commits is written to durable storage (and
\* only its own entry) and not to in-memory storage. So durable storage only
\* ever holds IDs that a block committed.
C10_Writes ==
    /\ \A in \in Inputs : \A params \in AllParams(in[1]) :
          LET tx == in[1]
              r  == appendTx(tx, params, in[2], Pipeline)
          IN  r.err = "none" =>
                  IF params.validatingUtx
                  THEN /\ r.st.mem = TxStatus(r.app.status)
                       /\ r.st.stor = stor
                       /\ r.st.curFees = curFees
                  ELSE /\ r.st.mem = "none"
                       /\ r.st.stor = [stor EXCEPT ![tx.id] = TxStatus(r.app.status)]
                       /\ r.st.curFees = curFees + Fee
    /\ (last.op = "validateNextTx" /\ last.err = "none") => last.mem = TxStatus(last.status)
    /\ (last.op = "appendTx" /\ last.err = "none") =>
          last.mem = "none" /\ stor[last.id] = TxStatus(last.status)
    /\ \A id \in TxIDs : stor[id] # "none" => committed[id] = "block"

\* validateNextTx has just committed a transaction: it is in in-memory
\* storage and not in durable storage.
C10_Witness ==
    /\ last.op = "validateNextTx"
    /\ last.err = "none"
    /\ last.mem = "ok"
    /\ stor[last.id] = "none"
    /\ committed[last.id] = "utx"
    /\ \E id \in TxIDs : stor[id] # "none"

\* C11: for a SetAssetScript transaction the run of the asset's own script adds
\* 0 to the count checkTransactionScripts returns while Ride4DApps is not
\* activated and 1 once it is, whatever the account script and acceptFailed.
C11_SetAssetScriptRuns ==
    (/\ last.op = "checkTransactionScripts"
     /\ arg.tx.type = "SetAssetScript"
     /\ last.err = "none")
        => last.runs = Bit(arg.accountScripted)
                       + (IF newestIsActivated("Ride4DApps") THEN 1 ELSE 0)

C11_Witness ==
    /\ last.op = "checkTransactionScripts"
    /\ arg.tx.type = "SetAssetScript"
    /\ arg.accountScripted
    /\ ~newestIsActivated("Ride4DApps")
    /\ last.err = "none"
    /\ last.runs = 1
    /\ last.cplx = 2 * ScriptCost

\* C12: validateNextTx returns every error of its appendTx call wrapped in an
\* InfoMsg and returns nil exactly when appendTx succeeded; appendBlock returns
\* the error of its appendTx call as it is.
C12_InfoMsg ==
    /\ last.op = "validateNextTx" =>
            /\ last.ret = NilError <=> last.err = "none"
            /\ last.err # "none" => last.ret = NewInfoMsg(last.err)
    /\ last.op = "appendTx" =>
            /\ last.ret = NilError <=> last.err = "none"
            /\ last.err # "none" => last.ret = PlainError(last.err)

C12_Witness ==
    /\ last.op = "validateNextTx"
    /\ last.err = "balance"
    /\ last.ret = NewInfoMsg("balance")
    /\ utxSession

ValidatedInPool(tx, params, env) ==
    /\ params.validatingUtx
    /\ ~(tx.type \in {"InvokeScript", "InvokeExpression"} /\ params.acceptFailed)
    /\ ~(tx.type = "EthereumMetamask" /\ env.ethKind = "invoke")

C14_MutexHeld ==
    /\ [](/\ mine.unlocks <= mine.locks
          /\ mine.locks <= 1
          /\ mine.pc \in {"create", "apply", "done"} =>
                 /\ mine.unlocks = mine.locks
                 /\ mine.mutex = "free")
    /\ [][(/\ mine'.runs = mine.runs
           /\ \/ mine'.validates # mine.validates
              \/ mine'.resets # mine.resets)
             => (mine.mutex = "miner" /\ mine'.mutex = "miner")]_vars

\* An interrupted run that validated a transaction has returned with the
\* mutex released.
C14_Witness ==
    /\ mine.pc = "done"
    /\ mine.interrupt
    /\ mine.b = <<>>
    /\ mine.validates = 1
    /\ mine.resets = 1
    /\ mine.locks = 1
    /\ mine.unlocks = 1
    /\ mine.mutex = "free"

\* C15: once a Mine run that called ValidateNextTx has released the state
\* mutex, on the normal path or the interrupted one, it has called
\* ResetValidationList since its last ValidateNextTx, and nothing of the pool
\* validation is left in the pipeline.
C15_ResetBeforeUnlock ==
    (mine.validates >= 1 /\ mine.unlocks >= 1) =>
        /\ mine.resets >= 1
        /\ last.op = "reset"
        /\ ~utxSession
        /\ recentTxIds = {}
        /\ diffStor = ZeroDiff
        /\ totalScriptsRuns = 0
        /\ totalComplexity = 0

\* An interrupted run that had admitted a transaction has released the mutex.
C15_Witness ==
    /\ mine.pc = "done"
    /\ mine.interrupt
    /\ Len(mine.transactions) = 1
    /\ mine.unlocks = 1
    /\ committed[mine.transactions[1].id] = "utx"
    /\ recentTxIds = {}

\* The flag handleExchange works with: accept-failed counts only once BlockV5
\* is activated.
EffectiveAcceptFailed == arg.info.blockV5Activated /\ arg.info.acceptFailed

\* Every account and order script that runs passes, and so do checkTx and the
\* creation of the diffs.
ExchangeScriptsPass ==
    /\ arg.info.senderScripted => arg.env.accOk
    /\ (newestIsActivated("SmartAccountTrading") /\ arg.env.o1Scripted) => arg.env.o1Ok
    /\ (newestIsActivated("SmartAccountTrading") /\ arg.env.o2Scripted) => arg.env.o2Ok
    /\ arg.env.checkOk
    /\ arg.env.diffOk

C18_BalanceDowngrade ==
    (/\ last.op = "handleExchange"
     /\ ExchangeScriptsPass
     /\ FirstNotPassed(arg.env.assets) = 0)
        => /\ last.err = "none"
           /\ IF EffectiveAcceptFailed
                 /\ ~validateTxDiff(createTransactionDiff(arg.tx), diffStor)
              THEN ~last.status /\ last.diff = createFailedTransactionDiff(arg.tx)
              ELSE last.status /\ last.diff = createTransactionDiff(arg.tx)

\* Accept-failed is active, two smart-asset scripts pass and the working diff
\* set leaves too little for the successful diff: the exchange is failed.
C18_Witness ==
    /\ last.op = "handleExchange"
    /\ EffectiveAcceptFailed
    /\ ExchangeScriptsPass
    /\ arg.env.assets = <<"T", "T">>
    /\ ~validateTxDiff(createTransactionDiff(arg.tx), diffStor)
    /\ validateTxDiff(createFailedTransactionDiff(arg.tx), diffStor)
    /\ last.err = "none"
    /\ ~last.status

\* C19: the script-run count of an exchange's application result is 0 while
\* Ride4DApps is not activated, whatever scripts ran; once it is activated
\* the count is the sender's script run, plus the runs of the scripted
\* orders, plus the number of smart assets.
C19_ExchangeCount ==
    (last.op = "handleExchange" /\ last.err = "none") =>
        last.runs = IF newestIsActivated("Ride4DApps")
                    THEN Bit(arg.info.senderScripted)
                         + Bit(newestIsActivated("SmartAccountTrading")
                               /\ arg.env.o1Scripted)
                         + Bit(newestIsActivated("SmartAccountTrading")
                               /\ arg.env.o2Scripted)
                         + Len(arg.env.assets)
                    ELSE 0

\* Before Ride4DApps a successful exchange whose sender script, both order
\* scripts and two asset scripts ran reports no runs.
C19_Witness ==
    /\ last.op = "handleExchange"
    /\ ~newestIsActivated("Ride4DApps")
    /\ newestIsActivated("SmartAccountTrading")
    /\ arg.info.senderScripted /\ arg.env.o1Scripted /\ arg.env.o2Scripted
    /\ Len(arg.env.assets) = 2
    /\ last.err = "none"
    /\ last.status
    /\ last.runs = 0

\* C17: with accept-failed set, handleFallible validates the fee diff against
\* the working diff set before any account, order or asset script runs and
\* before the invoke is applied: when the fee is not payable the call returns
\* the fee error, whatever the scripts and the invoke would have answered,
\* and never a result with status=false.
C17_FeeFirst ==
    (/\ last.op = "handleFallible"
     /\ arg.tx.type \in FallibleTypes
     /\ arg.info.acceptFailed
     /\ ~validateTxDiff(createFailedTransactionDiff(arg.tx), diffStor))
        => last.err = "fee"

\* The fee is not payable and the sender's account script would have failed:
\* the exchange is rejected for the fee.
C17_Witness ==
    /\ last.op = "handleFallible"
    /\ arg.tx.type = "Exchange"
    /\ arg.info.acceptFailed /\ arg.info.blockV5Activated
    /\ arg.info.senderScripted /\ ~arg.env.accOk
    /\ ~validateTxDiff(createFailedTransactionDiff(arg.tx), diffStor)
    /\ last.err = "fee"

\* The pool-mode parameters a transaction can be validated with.
PoolParams(tx) ==
    {UtxParams(acceptFailed, ts) : acceptFailed \in BOOLEAN, ts \in TimestampsOf(tx)}

\* The diff a call returned went through a balance validation on the way:
\* appendTx's own, handleExchange's check of the successful diff under
\* accept-failed, or checkTxFees' check of the fee-only diff a failed
\* transaction is committed with.
ValidatedBeforeCommit(tx, params, env, r) ==
    \/ r.validated
    \/ tx.type = "Exchange" /\ AcceptFailedActive(tx, params)
    \/ IsFallibleKind(tx, env) /\ params.acceptFailed /\ ~r.app.status

C21_Limits ==
    last.op = "checkScriptsLimits" =>
        LET runs     == totalScriptsRuns + arg.runs
            cplx     == totalComplexity + arg.cplx
            ceiling  == IF newestIsActivated("RideV5") THEN MaxComplexityAfterRideV5
                        ELSE MaxComplexityBeforeRideV5
            rejected == last.err # "none"
        IN  /\ (~newestIsActivated("Ride4DApps") /\ newestIsActivated("SmartAccounts"))
                  => (rejected <=> runs > maxScriptsRunsInBlock)
            /\ newestIsActivated("Ride4DApps")
                  => (rejected <=> (cplx > ceiling /\ newestIsActivated("RideV6")))
            /\ (~newestIsActivated("Ride4DApps") /\ ~newestIsActivated("SmartAccounts"))
                  => ~rejected

\* Ride4DApps is activated and RideV6 is not: a transaction that takes the
\* complexity over the ceiling and the runs over maxScriptsRunsInBlock is
\* accepted.
C21_Witness ==
    /\ last.op = "checkScriptsLimits"
    /\ newestIsActivated("Ride4DApps")
    /\ ~newestIsActivated("RideV6")
    /\ ~newestIsActivated("RideV5")
    /\ totalComplexity <= MaxComplexityBeforeRideV5
    /\ totalComplexity + arg.cplx > MaxComplexityBeforeRideV5
    /\ totalScriptsRuns + arg.runs > maxScriptsRunsInBlock
    /\ last.err = "none"

\* C22: verifyWavesTxSigAndData asks for the transaction's signature iff the
\* sender has no verifier script and, for an exchange, for each order's
\* signature iff that order's account is not scripted, each independently
\* of the other. In pool mode the check runs in the call and appendTx
\* returns its error; in block mode exactly one task with these three flags
\* is handed to the verifier channel and the verdict does not wait for the
\* verification.
C22_Verification ==
    last.op = "verifyWavesTxSigAndData" =>
        LET e        == arg.env
            exchange == arg.tx.type = "Exchange"
            needSig  == ~e.accScripted
            need1    == exchange /\ ~e.o1Scripted
            need2    == exchange /\ ~e.o2Scripted
            valid    == /\ needSig => e.sigOk
                        /\ need1 => e.o1SigOk
                        /\ need2 => e.o2SigOk
            task     == [checkTxSig |-> needSig, checkOrder1 |-> need1,
                         checkOrder2 |-> need2]
        IN  IF arg.validatingUtx
            THEN /\ last.sent = <<>>
                 /\ last.err = "none" <=> valid
                 /\ ~valid => last.appendTxErr = last.err
                 /\ last.appendTxSent = <<>>
            ELSE /\ last.sent = <<task>>
                 /\ last.appendTxSent = <<task>>
                 /\ last.err = "none" <=> e.sendOk
                 /\ e.sendOk => last.appendTxErr # "verify"

\* An exchange in block mode: order 1's account is scripted, order 2's is
\* not, order 2's signature is invalid: one task asking for order 2's
\* signature is sent and nothing is rejected for the signature.
C22_Witness ==
    /\ last.op = "verifyWavesTxSigAndData"
    /\ ~arg.validatingUtx
    /\ arg.tx.type = "Exchange"
    /\ arg.env.o1Scripted /\ ~arg.env.o2Scripted /\ ~arg.env.o2SigOk
    /\ arg.env.accScripted
    /\ last.sent = <<[checkTxSig |-> FALSE, checkOrder1 |-> FALSE, checkOrder2 |-> TRUE]>>
    /\ last.err = "none"

\* What each of appendTx's first checks finds, taken by itself.
VersionFails(tx, params) == tx.proto /\ ~params.blockV5Activated

DuplicateFails(tx, params) ==
    checkDuplicateTxIds(tx, recentTxIds, params.timestamp) # "none"

VerificationFails(tx, params, env) ==
    verifyWavesTxSigAndData(tx, params.validatingUtx, env, env.accScripted).err # "none"

\* C23: appendTx checks in the order protobuf version, duplicate ID, sender,
\* verification, kind dispatch, script limits, commit: the first check that
\* fails decides the error, so a protobuf transaction before BlockV5 is
\* rejected for its version even when its ID is a duplicate, and a
\* transaction rejected for its version or as a duplicate has sent no
\* verification task and run no script.
C23_CheckOrder ==
    \A in \in Inputs : \A params \in AllParams(in[1]) :
        LET tx  == in[1]
            env == in[2]
            r   == appendTx(tx, params, env, Pipeline)
            v   == VersionFails(tx, params)
            d   == DuplicateFails(tx, params)
            s   == ~env.senderOk
            f   == VerificationFails(tx, params, env)
        IN  /\ v => r.err = "version"
            /\ (~v /\ d) => r.err \in DuplicateErrors
            /\ (~v /\ ~d /\ s) => r.err = "sender"
            /\ (~v /\ ~d /\ ~s /\ f) => r.err = "verify"
            /\ (v \/ d \/ s) =>
                  /\ r.sent = <<>>
                  /\ r.app = NoApp
                  /\ r.st = Pipeline
            /\ r.err = "limits" => r.st = Pipeline
            /\ r.err \in {"accountScript", "checkTx", "assetScript", "diff", "balance",
                           "limits"}
                  => ~(v \/ d \/ s \/ f)

\* A protobuf transaction was rejected for its version before BlockV5
\* although its ID is in the recent-ID set.
C23_Witness ==
    /\ last.op \in {"validateNextTx", "appendTx"}
    /\ last.err = "version"
    /\ last.id \in recentTxIds
    /\ ~newestIsActivated("BlockV5")

\* The kinds handleFallible's switch does not handle.
OtherTxs == {tx \in Txs : tx.type \notin FallibleTypes}

\* C24 as stated: a transaction appendTx commits whose kind is not exchange,
\* invoke-script, invoke-expression or bridged invoke is committed with
\* status=true, and handleFallible returns the error "transaction is not
\* fallible" for every other kind.
C24_Original ==
    /\ \A in \in Inputs : \A params \in AllParams(in[1]) :
          LET r == appendTx(in[1], params, in[2], Pipeline)
          IN  (r.err = "none" /\ ~IsFallibleKind(in[1], in[2])) => r.app.status
    /\ \A tx \in OtherTxs, info \in ExchangeInfos :
          handleFallible(tx, info, EnvOK, diffStor).err = "notFallible"

\* C24 amended: a transaction appendTx commits whose kind is not exchange,
\* invoke-script, invoke-expression or bridged invoke is committed with
\* status=true, and handleDefaultTransaction returns no other status; for
\* every other kind handleFallible returns an error and no result: the error
\* "transaction is not fallible" when acceptFailed is not set, and the
\* wrong-type error of checkTxFees when it is.
C24_DefaultSucceeds ==
    /\ \A in \in Inputs : \A params \in AllParams(in[1]) :
          LET r == appendTx(in[1], params, in[2], Pipeline)
              h == handleDefaultTransaction(in[1], params, in[2].accScripted, in[2])
          IN  /\ (r.err = "none" /\ ~IsFallibleKind(in[1], in[2])) => r.app.status
              /\ h.err = "none" => h.app.status
    /\ \A tx \in OtherTxs, info \in ExchangeInfos :
          LET h == handleFallible(tx, info, EnvOK, diffStor)
          IN  /\ h.err = IF info.acceptFailed THEN "wrongType" ELSE "notFallible"
              /\ h.app = NoApp

\* appendBlock has just committed a transaction with status=true while BlockV5
\* is activated (failed transactions are accepted), and a transfer offered
\* now would be committed with status=true as well.
C24_Witness ==
    /\ last.op = "appendTx"
    /\ last.err = "none"
    /\ last.status
    /\ newestIsActivated("BlockV5")
    /\ \E in \in Inputs :
          LET r == appendTx(in[1], BlockParamsAt(1), in[2], Pipeline)
          IN  in[1].type = "Transfer" /\ r.err = "none" /\ r.app.status

\* blockDiffer.saveCurFeeDistr has run in this step: the fees collected for
\* the block, this transaction's included, became the previous block's fees
\* and the collection restarted from zero.
FeeDistrSaved == prevFees' = curFees + Fee /\ curFees' = 0

\* C25: appendBlock stops at the first transaction whose appendTx returns an
\* error (the loop is left, no later transaction of the block is processed
\* and the fee distribution is not saved: the previous block's fees stay and
\* the current collection is not restarted); after a successful appendTx the
\* loop goes on to the next transaction without saving while one is left,
\* and saves the fee distribution once the block's last transaction has been
\* appended.
C25_StopAtFirstError ==
    [][pc = "block" =>
          /\ last'.op = "appendTx"
          /\ last'.err # "none" =>
                /\ pc' = "idle" /\ block' = NoBlock
                /\ last'.ret = PlainError(last'.err)
                /\ prevFees' = prevFees /\ curFees' >= curFees
          /\ (last'.err = "none" /\ block.pos + 1 < block.len) =>
                /\ pc' = "block" /\ block'.pos = block.pos + 1
                /\ prevFees' = prevFees /\ curFees' = curFees + Fee
          /\ (last'.err = "none" /\ block.pos + 1 = block.len) =>
                /\ pc' = "idle" /\ block' = NoBlock
                /\ FeeDistrSaved]_vars

\* appendBlock has returned the error of a block's second transaction: the
\* fee of the first is still in the current collection and nothing was
\* saved as the previous block's fees.
C25_Witness ==
    /\ BlockFailed
    /\ last.ids # {}
    /\ curFees > 0
    /\ prevFees = 0

\* Mine has moved on from where it stood.
MineMoves == mine'.pc # mine.pc /\ mine'.runs = mine.runs

\* Mine has observed the interrupt flag set and has not returned yet.
MineInterrupted == mine.pc \in {"resetInterrupted", "unlockInterrupted"}

\* C26: Mine reads the interrupt flag only between a Pop that returned a
\* transaction and the ValidateNextTx of that transaction: every
\* ValidateNextTx call follows a read that found the flag clear, and a flag
\* set later does not stop that call. Once a read finds the flag set, Mine
\* calls ResetValidationList, then releases the mutex and returns: it makes
\* no ValidateNextTx call any more and neither creates nor applies a block.
C26_InterruptBetweenTxs ==
    /\ [](/\ mine.validates <= Len(mine.popped)
          /\ Len(mine.popped) <= mine.validates + 1
          /\ mine.pc \in {"interrupt", "validate"} =>
                 /\ mine.tx # NoTx
                 /\ Len(mine.popped) = mine.validates + 1
                 /\ mine.popped[Len(mine.popped)] = mine.tx
          /\ MineInterrupted =>
                 /\ mine.mutex = "miner"
                 /\ Len(mine.popped) = mine.validates + 1
                 /\ mine.b = <<>>
                 /\ ~mine.applied)
    /\ [][/\ (MineMoves /\ mine'.pc = "interrupt") => mine.pc = "loop"
          /\ (MineMoves /\ mine'.pc = "validate") =>
                 (mine.pc = "interrupt" /\ ~mine.interrupt)
          /\ (MineMoves /\ mine.pc = "interrupt" /\ mine.interrupt) =>
                 mine'.pc = "resetInterrupted"
          /\ mine'.validates # mine.validates /\ mine'.runs = mine.runs =>
                 (mine.pc = "validate" /\ mine'.pc = "loop")
          /\ (MineMoves /\ mine.pc = "resetInterrupted") =>
                 /\ mine'.pc = "unlockInterrupted"
                 /\ mine'.resets = mine.resets + 1
                 /\ mine'.validates = mine.validates
                 /\ last'.op = "reset"
          /\ (MineMoves /\ mine.pc = "unlockInterrupted") =>
                 /\ mine'.pc = "done"
                 /\ mine'.mutex = "free"
                 /\ mine'.validates = mine.validates
                 /\ mine'.b = <<>>
                 /\ ~mine'.applied]_vars

\* A run interrupted at its second transaction has returned: two
\* transactions were popped, one was validated, and no block was built.
C26_Witness ==
    /\ mine.pc = "done"
    /\ mine.interrupt
    /\ Len(mine.popped) = 2
    /\ mine.validates = 1
    /\ mine.resets = 1
    /\ mine.unlocks = 1
    /\ mine.b = <<>>
    /\ ~mine.applied

\* The error came from a check appendTx makes before commitTxApplication.
RaisedBeforeCommit(err) == err \notin {"none", "commit"}

\* C27: an appendTx that returns an error raised before commitTxApplication
\* leaves the recent-ID set, totalScriptsRuns, the block complexity total,
\* the working diff set and transaction storage (durable and in-memory) as
\* they were before the call, and no complexity of the rejected transaction
\* stays behind. Stated of every call appendTx can make in the current
\* state, and of every step validateNextTx or appendBlock's loop takes
\* (appendBlock's own return then zeroes the two counters).
C27_RejectionLeavesState ==
    /\ [](\A in \in Inputs : \A params \in AllParams(in[1]) :
            LET r == appendTx(in[1], params, in[2], Pipeline)
            IN  RaisedBeforeCommit(r.err) =>
                    /\ r.st.recentTxIds = recentTxIds
                    /\ r.st.totalScriptsRuns = totalScriptsRuns
                    /\ r.st.totalComplexity = totalComplexity
                    /\ r.st.diffStor = diffStor
                    /\ r.st.stor = stor
                    /\ r.st.mem = "none"
                    /\ r.st.curFees = curFees
                    /\ r.app.cplx = 0)
    /\ [][/\ (last'.op = "validateNextTx" /\ RaisedBeforeCommit(last'.err)) =>
                 /\ UNCHANGED <<recentTxIds, totalScriptsRuns, totalComplexity,
                                diffStor, stor, curFees>>
                 /\ last'.mem = "none"
          /\ (last'.op = "appendTx" /\ RaisedBeforeCommit(last'.err)) =>
                 /\ UNCHANGED <<recentTxIds, diffStor, stor, curFees>>
                 /\ last'.ids = last.ids]_vars

\* validateNextTx has just rejected a transaction before commitTxApplication
\* while the pool batch holds a committed transaction whose scripts ran: the
\* rejected ID is not in the recent-ID set and the counters are those of the
\* committed transaction.
C27_Witness ==
    /\ last.op = "validateNextTx"
    /\ RaisedBeforeCommit(last.err)
    /\ last.id \notin recentTxIds
    /\ recentTxIds # {}
    /\ totalScriptsRuns > 0
    /\ diffStor # ZeroDiff

\* C28: when commitTxApplication fails after validation passed, appendTx
\* returns the commitment error and the failed transaction leaves no trace:
\* its ID is not in the recent-ID set, its script runs are not in
\* totalScriptsRuns, its complexity is not in the block total and its diff is
\* not in the working diff set. Stated of every call appendTx can make in the
\* current state, and of the state the last call left.
C28_NoTraceOfFailedCommit ==
    /\ \A in \in Inputs : \A params \in AllParams(in[1]) :
          LET tx == in[1]
              r  == appendTx(tx, params, in[2], Pipeline)
          IN  r.err = "commit" =>
                  /\ tx.id \notin r.st.recentTxIds
                  /\ r.st.totalScriptsRuns = totalScriptsRuns
                  /\ r.st.totalComplexity = totalComplexity
                  /\ r.st.diffStor = diffStor
    /\ (last.op \in {"appendTx", "validateNextTx"} /\ last.err = "commit") =>
          last.id \notin recentTxIds

\* appendBlock has just returned, with or without an error.
AppendBlockReturned == pc = "idle" /\ last.op \in {"appendBlock", "appendTx"}

\* C29: whenever appendBlock has returned, with nil or with the error of any
\* of its transactions, totalScriptsRuns and the block complexity total are
\* 0, so the transaction the next appendBlock or validateNextTx commits
\* leaves in the counters its own script runs and complexity and nothing of
\* the block before.
C29_CountersResetOnReturn ==
    AppendBlockReturned =>
        /\ totalScriptsRuns = 0
        /\ totalComplexity = 0
        /\ \A in \in Inputs : \A params \in AllParams(in[1]) :
              LET r == appendTx(in[1], params, in[2], Pipeline)
              IN  r.err = "none" =>
                      /\ r.st.totalScriptsRuns = r.app.totalScriptsRuns
                      /\ r.st.totalComplexity = r.app.cplx

\* appendBlock has returned the limit error of its second transaction, so
\* the first had left script runs or complexity in the counters; both are 0.
C29_Witness ==
    /\ BlockFailed
    /\ last.err = "limits"
    /\ last.ids # {}
    /\ totalScriptsRuns = 0
    /\ totalComplexity = 0

\* s can be obtained from t by leaving elements out, the order kept.
RECURSIVE IsSubSeq(_, _)
IsSubSeq(s, t) ==
    IF s = <<>> THEN TRUE
    ELSE IF t = <<>> THEN FALSE
    ELSE IF Head(s) = Head(t) THEN IsSubSeq(Tail(s), Tail(t))
    ELSE IsSubSeq(s, Tail(t))

\* Mine has built its block.
MineBlockBuilt == mine.pc = "apply" \/ mine.applied

\* C30: Mine pops at most mineLoopLimit transactions (100 in the source) and
\* none after a Pop that found the pool empty; a popped transaction joins the
\* list exactly when its ValidateNextTx returned nil, at the end of the list;
\* the block Mine builds holds that list: at most mineLoopLimit transactions,
\* all popped in this run, in pop order.
C30_BlockOfValidated ==
    /\ [](/\ Len(mine.popped) <= mineLoopLimit
          /\ Len(mine.transactions) <= mine.validates
          /\ mine.validates = mine.i
          /\ IsSubSeq(mine.transactions, mine.popped)
          /\ \A k \in 1..Len(mine.transactions) :
                committed[mine.transactions[k].id] = "utx"
          /\ mine.b # <<>> => MineBlockBuilt
          /\ MineBlockBuilt =>
                /\ mine.b = mine.transactions
                /\ Len(mine.b) <= mineLoopLimit)
    /\ [][/\ (mine'.popped # mine.popped /\ mine'.runs = mine.runs) =>
                /\ mine.pc = "loop"
                /\ mine.i < mineLoopLimit
                /\ mine.utx # {}
                /\ mine'.tx \in mine.utx
                /\ mine'.popped = Append(mine.popped, mine'.tx)
          /\ (MineMoves /\ mine.pc = "loop"
                /\ (mine.utx = {} \/ mine.i >= mineLoopLimit)) =>
                /\ mine'.pc = "reset"
                /\ mine'.popped = mine.popped
          /\ (MineMoves /\ mine.pc \notin {"loop", "interrupt", "validate"}) =>
                mine'.popped = mine.popped
          /\ (MineMoves /\ mine.pc = "validate") =>
                mine'.transactions = IF last'.ret = NilError
                                     THEN Append(mine.transactions, mine.tx)
                                     ELSE mine.transactions
          /\ (MineMoves /\ mine.pc # "validate") =>
                mine'.transactions = mine.transactions]_vars

\* Mine has applied a block after popping as many transactions as the loop
\* allows while the pool still held one: the first popped was rejected by
\* ValidateNextTx, the block holds the second alone.
C30_Witness ==
    /\ mine.applied
    /\ Len(mine.popped) = mineLoopLimit
    /\ mine.utx # {}
    /\ Len(mine.b) = 1
    /\ mine.b[1] = mine.popped[2]
    /\ mine.popped[1] # mine.popped[2]

\* The transactions of a sequence.
Range(seq) == {seq[k] : k \in 1..Len(seq)}

\* The step is not another goroutine adding to the pool.
NoUtxAdd == mine'.adds = mine.adds

\* C31: no step of Mine puts a transaction into the UTX pool: the pool
\* changes under Mine only by a Pop, which takes one transaction out. So,
\* unless another goroutine adds it again, a popped transaction is not in the
\* pool any more, whether ValidateNextTx accepted it, rejected it or never
\* saw it because of the interrupt; it is in a block only if it is in Mine's
\* list and Mine built its block, and a run that returned without building a
\* block (the interrupted run among them) leaves no block at all.
C31_PoppedNeverReturned ==
    /\ [](/\ mine.adds = 0 =>
                /\ Range(mine.popped) \cap mine.utx = {}
                /\ \A j, k \in 1..Len(mine.popped) :
                      mine.popped[j] = mine.popped[k] => j = k
          /\ Range(mine.b) \subseteq Range(mine.transactions)
          /\ Range(mine.transactions) \subseteq Range(mine.popped)
          /\ (mine.pc = "done" /\ ~mine.applied) => mine.b = <<>>
          /\ (MineInterrupted \/ (mine.pc = "done" /\ mine.validates < Len(mine.popped)))
                => (mine.b = <<>> /\ ~mine.applied))
    /\ [][NoUtxAdd =>
             /\ mine'.utx \subseteq mine.utx
             /\ mine'.utx # mine.utx =>
                   /\ mine.pc = "loop"
                   /\ mine'.utx = mine.utx \ {mine'.tx}
                   /\ mine'.popped = Append(mine.popped, mine'.tx)]_vars

\* A run interrupted at its second transaction has returned and no other
\* goroutine has added anything: the transaction validated before and the
\* one popped just before the interrupt was seen are both gone from the
\* pool, and there is no block.
C31_Witness ==
    /\ mine.pc = "done"
    /\ mine.interrupt
    /\ mine.adds = 0
    /\ Len(mine.popped) = 2
    /\ Len(mine.transactions) = 1
    /\ mine.utx = {}
    /\ mine.b = <<>>
    /\ ~mine.applied

====
